---- MODULE Spec2Model ----
(***************************************************************************)
(* A model of meshio's read/write facade (src/meshio/_helpers.py) and of   *)
(* its PLY codec (src/meshio/ply/_ply.py).                                 *)
(*                                                                         *)
(* The module holds four state machines that share nothing but helpers:    *)
(*   - the format registry and the read/write facade  (SpecResolve,        *)
(*     SpecRead, SpecWrite);                                               *)
(*   - the ragged list decoder _read_binary_list       (SpecList);         *)
(*   - the PLY header reader read_buffer/_next_line    (SpecHeader);       *)
(*   - the PLY writer and readers, end to end          (SpecPly).          *)
(* A specification leaves the variables of the other machines at their     *)
(* idle values.                                                            *)
(***************************************************************************)
EXTENDS Integers, Sequences, FiniteSets, TLC

\* the fields of the model's records and what each holds; every record of the
\* model lists its fields in this order
Fields ==
    [ok |-> "the call returned", exc |-> "class of the exception raised",
     why |-> "which raise statement", value |-> "the value returned",
     op |-> "the function called", by |-> "the format whose reader or writer ran",
     filename |-> "path or buffer argument", suffixes |-> "Path.suffixes of the path",
     is_buffer |-> "the argument is an open buffer", exists |-> "the path exists",
     mesh |-> "the cell blocks of the mesh", file_format |-> "explicit format name",
     kwargs |-> "keyword arguments passed through", binary |-> "binary or ASCII body",
     type |-> "cell type of a block", dtype |-> "numpy dtype of an array",
     ncols |-> "columns of a block's array", data |-> "rows of a block",
     points |-> "the coordinate array of a mesh", cells |-> "the cell blocks of a mesh",
     cell_data |-> "per-cell attributes of a mesh",
     lines |-> "text lines written", bytes |-> "bytes written after the header",
     warnings |-> "warnings issued",
     at |-> "position in the function", index |-> "loop index",
     rows |-> "records encoded in the buffer", buffer |-> "bytes to decode",
     count_itemsize |-> "bytes of a count field", data_itemsize |-> "bytes of an index",
     num_cells |-> "records announced by the header", endianness |-> "byte order",
     scalar_of_one |-> "a sub-array dtype of length 1 is read as a scalar",
     consumed |-> "bytes consumed", blocks |-> "decoded cell blocks",
     is_binary |-> "the body is binary", num_verts |-> "vertices announced by the header",
     point_data_formats |-> "types of the vertex properties",
     point_data_names |-> "names of the vertex properties",
     cell_data_names |-> "names of the face properties",
     cell_data_dtypes |-> "types of the face properties",
     vertex |-> "1 node", line |-> "2 nodes", triangle |-> "3 nodes", quad |-> "4 nodes"]

VARIABLES
    \* _helpers.py: the three module-level dictionaries
    extension_to_filetype, reader_map, _writer_map,
    \* the last facade call: its arguments, what it returned or raised, and
    \* the reader/writer invocations it made
    call, result, delegated,
    \* _read_binary_list: its arguments (list_args), the place it is at (list_pc),
    \* its local variables, and what it returned or raised (list_result)
    list_args, list_pc, byte_starts_ends, block_bounds, blocks, list_result,
    \* read_buffer: the lines read from f so far (f_lines), the reads made at the
    \* end of the stream, counted 1, 2, 1, 2, ... (empty_reads), the place the
    \* reader is at and the place _next_line returns to (header_pc, return_to),
    \* its local variables (line, header), and what it raised (header_result)
    f_lines, empty_reads, header_pc, return_to, line, header, header_result,
    \* the PLY codec end to end: the caller's Mesh as it was passed (mesh_before)
    \* and as it is (caller_mesh), the binary argument, the file written (fh), the
    \* warnings issued, where the round trip is at (ply_pc), and what write and
    \* read returned or raised (write_result, read_result)
    mesh_before, caller_mesh, as_binary, fh, warnings, ply_pc, write_result, read_result

varsFacade == <<extension_to_filetype, reader_map, _writer_map, call, result, delegated>>

varsList == <<list_args, list_pc, byte_starts_ends, block_bounds, blocks, list_result>>

varsHeader == <<f_lines, empty_reads, header_pc, return_to, line, header, header_result>>

varsPly == <<mesh_before, caller_mesh, as_binary, fh, warnings, ply_pc, write_result, read_result>>

vars == <<varsFacade, varsList, varsHeader, varsPly>>

\* what each machine leaves alone
notFacade == <<varsList, varsHeader, varsPly>>
notList == <<varsFacade, varsHeader, varsPly>>
notHeader == <<varsFacade, varsList, varsPly>>
notPly == <<varsFacade, varsList>>

\* a readline has hit the end of the stream
f_eof == empty_reads > 0

(***************************************************************************)
(* Common helpers                                                          *)
(***************************************************************************)

\* Python's None
None == "None"

\* str(n) for a natural number: its decimal digits
Digits == <<"0", "1", "2", "3", "4", "5", "6", "7", "8", "9">>

RECURSIVE Str(_)
Str(n) == IF n < 10 THEN Digits[n + 1] ELSE Str(n \div 10) \o Digits[(n % 10) + 1]

\* the largest number the model ever prints or parses
MaxNum == 12

\* s consists of decimal digits only (\d+), within the model's numbers
IsDigits(s) == \E n \in 0..MaxNum : Str(n) = s

\* int(s) for a string of decimal digits
Int_(s) == CHOOSE n \in 0..MaxNum : Str(n) = s

\* an exception raised at the place `why`
Raise(exc, why) == [ok |-> FALSE, exc |-> exc, why |-> why, value |-> None]

\* a normal return of value v
Return(v) == [ok |-> TRUE, exc |-> None, why |-> None, value |-> v]

(***************************************************************************)
(* 1. The format registry and the facade (_helpers.py)                     *)
(***************************************************************************)

\* format names the codecs register
FormatNames == {"ply", "tetgen"}

\* file name suffixes (pathlib's Path.suffixes yields a list of these)
PathSuffixes == {".ply", ".PLY", ".vtk", ".gz", ".GZ"}

\* extensions handed to register()
RegExtensions == {".PLY", ".gz", ".vtk.gz"}

\* the longest suffix list of a path
MaxSuffixes == 2

\* the most cell blocks of a mesh handed to the facade's write
MaxBlocks == 2

RECURSIVE SeqsUpTo(_, _)
SeqsUpTo(S, n) ==
    IF n = 0 THEN {<<>>}
    ELSE LET shorter == SeqsUpTo(S, n - 1)
         IN  shorter \cup {Append(q, x) : q \in {r \in shorter : Len(r) = n - 1}, x \in S}

\* str.lower() of one suffix
LowerSuffix(s) ==
    CASE s = ".PLY" -> ".ply"
      [] s = ".GZ"  -> ".gz"
      [] s = ".VTK" -> ".vtk"
      [] OTHER      -> s

RECURSIVE Join(_)
Join(chain) == IF chain = <<>> THEN "" ELSE Head(chain) \o Join(Tail(chain))

\* every suffix list of a path
Paths == SeqsUpTo(PathSuffixes, MaxSuffixes)

\* str.lower() of the strings made of suffixes: lowered suffix by suffix
LowerTable ==
    LET chains == SeqsUpTo(PathSuffixes \cup {".VTK"}, MaxSuffixes + 1)
    IN  [s \in {Join(c) : c \in chains} |->
            LET c == CHOOSE c \in chains : Join(c) = s
            IN  Join([i \in 1..Len(c) |-> LowerSuffix(c[i])])]

\* str.lower()
lower(s) == IF s \in DOMAIN LowerTable THEN LowerTable[s] ELSE s

\* register(name, extensions, reader, writer_map): the dictionaries after it
register_extensions(old, name, extensions) ==
    [e \in DOMAIN old \cup extensions |-> IF e \in extensions THEN name ELSE old[e]]

register_reader(old, name, reader) ==
    IF reader # None
    THEN [n \in DOMAIN old \cup {name} |-> IF n = name THEN reader ELSE old[n]]
    ELSE old

\* dict.update
register_writers(old, writer_map) ==
    [n \in DOMAIN old \cup DOMAIN writer_map |->
        IF n \in DOMAIN writer_map THEN writer_map[n] ELSE old[n]]

\* the loop of _filetype_from_path over reversed(path.suffixes): k is the index
\* of the suffix to take next, ext and out the loop's variables
RECURSIVE filetype_scan(_, _, _, _, _)
filetype_scan(table, suffixes, k, ext, out) ==
    IF k = 0 THEN out
    ELSE LET ext2 == lower(suffixes[k] \o ext)
         IN  filetype_scan(table, suffixes, k - 1, ext2,
                           IF ext2 \in DOMAIN table THEN table[ext2] ELSE out)

\* _filetype_from_path: the format name, or None where the code raises ReadError
_filetype_from_path(table, suffixes) ==
    filetype_scan(table, suffixes, Len(suffixes), "", None)

IdleCall == [op |-> "none"]
IdleResult == Raise(None, None)

IdleList ==
    /\ list_args = <<>>
    /\ list_pc = [at |-> "idle", index |-> 0]
    /\ byte_starts_ends = <<>>
    /\ block_bounds = <<>>
    /\ blocks = <<>>
    /\ list_result = IdleResult

\* read_buffer's locals before the header is read (lines 103-108)
EmptyHeader ==
    [num_cells |-> 0, endianness |-> None, is_binary |-> FALSE, num_verts |-> 0,
     point_data_formats |-> <<>>, point_data_names |-> <<>>,
     cell_data_names |-> <<>>, cell_data_dtypes |-> <<>>]

IdleHeader ==
    /\ f_lines = <<>>
    /\ empty_reads = 0
    /\ header_pc = "idle"
    /\ return_to = None
    /\ line = <<>>
    /\ header = EmptyHeader
    /\ header_result = IdleResult

NoFile == [lines |-> <<>>, bytes |-> <<>>]

IdlePly ==
    /\ mesh_before = <<>>
    /\ caller_mesh = <<>>
    /\ as_binary = FALSE
    /\ fh = NoFile
    /\ warnings = <<>>
    /\ ply_pc = "idle"
    /\ write_result = IdleResult
    /\ read_result = IdleResult

IdleFacade ==
    /\ extension_to_filetype = <<>>
    /\ reader_map = <<>>
    /\ _writer_map = <<>>
    /\ call = IdleCall
    /\ result = IdleResult
    /\ delegated = <<>>

InitFacade ==
    /\ IdleList
    /\ IdleHeader
    /\ IdlePly
    /\ extension_to_filetype = <<>>
    /\ reader_map = <<>>
    /\ _writer_map = <<>>
    /\ call = IdleCall
    /\ result = IdleResult
    /\ delegated = <<>>

\* register(name, extensions, reader, writer_map). The codec modules register
\* when they are loaded, before the facade is called.
register(name, extensions, reader, writer_map) ==
    /\ call = IdleCall
    /\ extension_to_filetype' = register_extensions(extension_to_filetype, name, extensions)
    /\ reader_map' = register_reader(reader_map, name, reader)
    /\ _writer_map' = register_writers(_writer_map, writer_map)
    /\ UNCHANGED <<call, result, delegated, notFacade>>

\* the reader and the writer a codec module registers under its name
ReaderOf(name) == "read_" \o name
WriterOf(name) == "write_" \o name

\* register calls with extensions among exts, with or without a reader (when
\* readers) and a writer (when writers)
RegisterFrom(exts, readers, writers) ==
    \E name \in FormatNames, extensions \in SUBSET exts,
       reader \in {FALSE, readers}, writer \in {FALSE, writers} :
        register(name, extensions,
                 IF reader THEN ReaderOf(name) ELSE None,
                 IF writer THEN (name :> WriterOf(name)) ELSE <<>>)

\* a call of _filetype_from_path(path)
resolve_format(suffixes) ==
    /\ call = IdleCall
    /\ call' = [op |-> "resolve", suffixes |-> suffixes]
    /\ result' = LET out == _filetype_from_path(extension_to_filetype, suffixes)
                 IN  IF out = None THEN Raise("ReadError", "cannot_deduce") ELSE Return(out)
    /\ delegated' = <<>>
    /\ UNCHANGED <<extension_to_filetype, reader_map, _writer_map, notFacade>>

RegisterResolve == RegisterFrom(RegExtensions, TRUE, TRUE)

Resolve == \E suffixes \in Paths : resolve_format(suffixes)

NextResolve == RegisterResolve \/ Resolve

SpecResolve == InitFacade /\ [][NextResolve]_vars

\* the suffix chains of a path, most specific (longest) first: the k rightmost
\* suffixes, joined
Chain(suffixes, k) == Join(SubSeq(suffixes, Len(suffixes) - k + 1, Len(suffixes)))

\* the extensions registered that equal ext when letter case is ignored
RegisteredAs(ext) == {e \in DOMAIN extension_to_filetype : lower(e) = lower(ext)}

\* C4: after any register calls, _filetype_from_path returns the name
\* registered for the longest suffix chain of the path that is registered,
\* letter case ignored in the path and in the register call alike, and raises
\* exactly when no suffix chain of the path is registered.
C4_ResolveMostSpecificAnyCase ==
    call.op = "resolve" =>
        LET n == Len(call.suffixes)
            hits == {k \in 1..n : RegisteredAs(Chain(call.suffixes, k)) # {}}
        IN  /\ result.ok <=> hits # {}
            /\ result.ok =>
                 LET k == CHOOSE k \in hits : \A j \in hits : j <= k
                 IN  \E e \in RegisteredAs(Chain(call.suffixes, k)) :
                        result.value = extension_to_filetype[e]

\* What the code does: an extension is matched only if it was registered in
\* lower case; the path's letter case is ignored.
C4_ResolveMostSpecificLowerRegistered ==
    call.op = "resolve" =>
        LET n == Len(call.suffixes)
            hits == {k \in 1..n : lower(Chain(call.suffixes, k)) \in DOMAIN extension_to_filetype}
        IN  /\ result.ok <=> hits # {}
            /\ result.ok =>
                 LET k == CHOOSE k \in hits : \A j \in hits : j <= k
                 IN  result.value = extension_to_filetype[lower(Chain(call.suffixes, k))]

(***************************************************************************)
(* 1b. The facade's read                                                   *)
(***************************************************************************)

\* what the facade is given as `filename`: an open buffer, or a path with its
\* suffix list and whether the file exists
Source(is_buffer, suffixes, exists) ==
    [suffixes |-> suffixes, is_buffer |-> is_buffer, exists |-> exists]

\* the file_format arguments: omitted, empty, or a format name
FileFormats == {None, ""} \cup FormatNames

\* `not file_format`
Falsy(file_format) == file_format = None \/ file_format = ""

\* lines 66-69 of read: the lookup in reader_map and the reader's call
read_dispatch(readers, filename, file_format) ==
    IF file_format \notin DOMAIN readers
    THEN Raise("ReadError", "unknown_format")
    ELSE Return([by |-> readers[file_format], filename |-> filename])

\* the same with the reader of another format: a wrong lookup
read_dispatch_any(readers, filename, file_format) ==
    IF DOMAIN readers = {}
    THEN Raise("ReadError", "unknown_format")
    ELSE Return([by |-> readers[CHOOSE n \in DOMAIN readers : TRUE], filename |-> filename])

\* read(filename, file_format) with the existence test after the lookup: a mutant
read_lookup_first(table, readers, filename, file_format) ==
    IF filename.is_buffer
    THEN IF file_format = None THEN Raise("ReadError", "format_required")
         ELSE IF file_format = "tetgen" THEN Raise("ReadError", "tetgen_buffer")
         ELSE read_dispatch(readers, filename, file_format)
    ELSE LET deduced == IF Falsy(file_format)
                        THEN _filetype_from_path(table, filename.suffixes)
                        ELSE file_format
         IN  IF deduced = None THEN Raise("ReadError", "cannot_deduce")
             ELSE IF deduced \notin DOMAIN readers THEN Raise("ReadError", "unknown_format")
             ELSE IF ~filename.exists THEN Raise("ReadError", "not_found")
             ELSE read_dispatch(readers, filename, deduced)

\* read(filename, file_format): what it returns or raises
read_outcome(table, readers, filename, file_format) ==
    IF filename.is_buffer
    THEN IF file_format = None THEN Raise("ReadError", "format_required")
         ELSE IF file_format = "tetgen" THEN Raise("ReadError", "tetgen_buffer")
         ELSE read_dispatch(readers, filename, file_format)
    ELSE IF ~filename.exists THEN Raise("ReadError", "not_found")
    ELSE LET deduced == IF Falsy(file_format)
                        THEN _filetype_from_path(table, filename.suffixes)
                        ELSE file_format
         IN  IF deduced = None THEN Raise("ReadError", "cannot_deduce")
             ELSE read_dispatch(readers, filename, deduced)

\* a call of read(filename, file_format)
read(filename, file_format) ==
    /\ call = IdleCall
    /\ call' = [op |-> "read", filename |-> filename, file_format |-> file_format]
    /\ result' = read_outcome(extension_to_filetype, reader_map, filename, file_format)
    /\ delegated' = IF result'.ok THEN <<result'.value>> ELSE <<>>
    /\ UNCHANGED <<extension_to_filetype, reader_map, _writer_map, notFacade>>

RegisterRead == RegisterFrom(RegExtensions, TRUE, FALSE)

Read ==
    \E file_format \in FileFormats, is_buffer \in BOOLEAN :
        \E suffixes \in (IF is_buffer THEN {<<>>} ELSE Paths),
           exists \in (IF is_buffer THEN {FALSE} ELSE BOOLEAN) :
            read(Source(is_buffer, suffixes, exists), file_format)

NextRead == RegisterRead \/ Read

SpecRead == InitFacade /\ [][NextRead]_vars

\* the name registered for the most specific registered suffix chain of a
\* path, or None
MostSpecific(suffixes) ==
    LET hits == {k \in 1..Len(suffixes) :
                    lower(Chain(suffixes, k)) \in DOMAIN extension_to_filetype}
    IN  IF hits = {} THEN None
        ELSE extension_to_filetype[
                lower(Chain(suffixes, CHOOSE k \in hits : \A j \in hits : j <= k))]

\* C6: read settles its outcome in this order. For a buffer: no format given
\* fails, the multi-file format tetgen fails, both before any registry lookup.
\* For a path: a missing file fails before any inference from the extension.
\* Only then: a given or inferred format without a registered reader fails as
\* unknown, and otherwise the registered reader's result is returned as is.
C6_ReadOutcomeOrder ==
    call.op = "read" =>
        LET f == call.filename
            given == call.file_format
            fmt == IF f.is_buffer \/ ~Falsy(given) THEN given ELSE MostSpecific(f.suffixes)
        IN  IF f.is_buffer /\ given = None
            THEN ~result.ok /\ result.why = "format_required" /\ delegated = <<>>
            ELSE IF f.is_buffer /\ given = "tetgen"
            THEN ~result.ok /\ result.why = "tetgen_buffer" /\ delegated = <<>>
            ELSE IF ~f.is_buffer /\ ~f.exists
            THEN ~result.ok /\ result.why = "not_found" /\ delegated = <<>>
            ELSE IF fmt \notin DOMAIN reader_map
            THEN /\ ~result.ok /\ result.exc = "ReadError"
                 /\ result.why \in {"cannot_deduce", "unknown_format"}
                 /\ delegated = <<>>
            ELSE /\ result.ok
                 /\ result.value = [by |-> reader_map[fmt], filename |-> f]
                 /\ delegated = <<result.value>>

\* C6's ordering at work: the extension names a format with a registered
\* reader, yet the missing file is reported
C6_Witness ==
    /\ call.op = "read" /\ ~call.filename.is_buffer /\ ~call.filename.exists
    /\ Falsy(call.file_format)
    /\ MostSpecific(call.filename.suffixes) \in DOMAIN reader_map
    /\ "tetgen" \in DOMAIN reader_map
    /\ ~result.ok

(***************************************************************************)
(* 1c. The facade's write                                                  *)
(***************************************************************************)

\* _common.num_nodes_per_cell, for the cell types of the specification's
\* vocabulary: the fixed vertex count of each
num_nodes_per_cell == [vertex |-> 1, line |-> 2, triangle |-> 3, quad |-> 4]

\* what may follow "polygon" in a key of the model
KeyTails == {"", "X"} \cup {Str(n) : n \in 0..MaxNum}

\* key[:7] == "polygon"
HasPolygonPrefix(key) == \E t \in KeyTails : key = "polygon" \o t

\* key[7:] of such a key
PolygonTail(key) == CHOOSE t \in KeyTails : key = "polygon" \o t

\* the cell types and row widths of the blocks handed to the facade's write
FacadeCellTypes == {"quad", "polygon5", "polygonX", "customXYZ"}
FacadeWidths == {4, 5}
FacadeBlocks == [type : FacadeCellTypes, ncols : FacadeWidths]

\* the loop body below without the test of the known cell types: a mutant
check_block_polygon_only(block) ==
    IF HasPolygonPrefix(block.type)
    THEN IF ~IsDigits(PolygonTail(block.type)) THEN "polygon_key_malformed"
         ELSE IF block.ncols # Int_(PolygonTail(block.type)) THEN "polygon_shape"
         ELSE None
    ELSE None

\* the body of the loop "check cells for sanity" for one block: the exception
\* it raises, or None
check_block(block) ==
    IF HasPolygonPrefix(block.type)
    THEN IF ~IsDigits(PolygonTail(block.type)) THEN "polygon_key_malformed"
         ELSE IF block.ncols # Int_(PolygonTail(block.type)) THEN "polygon_shape"
         ELSE None
    ELSE IF block.type \in DOMAIN num_nodes_per_cell
    THEN IF block.ncols # num_nodes_per_cell[block.type] THEN "cell_shape" ELSE None
    ELSE None

\* the loop over mesh.cells: what the first offending block raises, or None
RECURSIVE check_cells(_)
check_cells(cells) ==
    IF cells = <<>> THEN None
    ELSE LET e == check_block(Head(cells))
         IN  IF e # None THEN e ELSE check_cells(Tail(cells))

ExcOf(why) == IF why = "polygon_key_malformed" THEN "ValueError" ELSE "WriteError"

\* write(filename, mesh, file_format, **kwargs): what it returns or raises
write_outcome(table, writers, filename, mesh, file_format, kwargs) ==
    LET early == IF filename.is_buffer
                 THEN IF file_format = None THEN "format_required"
                      ELSE IF file_format = "tetgen" THEN "tetgen_buffer"
                      ELSE None
                 ELSE None
        deduced == IF ~filename.is_buffer /\ Falsy(file_format)
                   THEN _filetype_from_path(table, filename.suffixes)
                   ELSE file_format
    IN  IF early # None THEN Raise("WriteError", early)
        ELSE IF deduced = None THEN Raise("ReadError", "cannot_deduce")
        ELSE IF deduced \notin DOMAIN writers THEN Raise("WriteError", "unknown_format")
        ELSE LET e == check_cells(mesh)
             IN  IF e # None THEN Raise(ExcOf(e), e)
                 ELSE Return([by |-> writers[deduced], filename |-> filename,
                              mesh |-> mesh, kwargs |-> kwargs])

\* a call of write(filename, mesh, file_format, **kwargs)
write(filename, mesh, file_format, kwargs) ==
    /\ call = IdleCall
    /\ call' = [op |-> "write", filename |-> filename, mesh |-> mesh,
                file_format |-> file_format, kwargs |-> kwargs]
    /\ result' = write_outcome(extension_to_filetype, _writer_map, filename, mesh,
                               file_format, kwargs)
    /\ delegated' = IF result'.ok THEN <<result'.value>> ELSE <<>>
    /\ UNCHANGED <<extension_to_filetype, reader_map, _writer_map, notFacade>>

RegisterWrite == RegisterFrom({".gz"}, FALSE, TRUE)

Write ==
    \E file_format \in FileFormats, mesh \in SeqsUpTo(FacadeBlocks, MaxBlocks),
       binary \in BOOLEAN :
        \E is_buffer \in BOOLEAN :
            \E suffixes \in (IF is_buffer THEN {<<>>} ELSE {<<>>, <<".GZ">>}) :
                write(Source(is_buffer, suffixes, FALSE), mesh, file_format, [binary |-> binary])

NextWrite == RegisterWrite \/ Write

SpecWrite == InitFacade /\ [][NextWrite]_vars

\* C5's cases of a block
PolygonN(block) == \E n \in 0..MaxNum : block.type = "polygon" \o Str(n)
WidthOfPolygon(block) == CHOOSE n \in 0..MaxNum : block.type = "polygon" \o Str(n)
Recognised(block) == block.type \in {"vertex", "line", "triangle", "quad"}
Mismatched(block) ==
    \/ PolygonN(block) /\ block.ncols # WidthOfPolygon(block)
    \/ block.type = "vertex" /\ block.ncols # 1
    \/ block.type = "line" /\ block.ncols # 2
    \/ block.type = "triangle" /\ block.ncols # 3
    \/ block.type = "quad" /\ block.ncols # 4
\* a key that starts with "polygon" and is no polygonN
MalformedKey(block) == HasPolygonPrefix(block.type) /\ ~PolygonN(block)

\* the write call found a registered writer for its format
WriterFound ==
    /\ call.op = "write"
    /\ result.why \notin {"format_required", "tetgen_buffer", "cannot_deduce", "unknown_format"}

\* C5 as stated: write validates every cell block before the registered
\* writer is invoked. A polygonN block whose width is not N, or a block of
\* another recognised type whose width is not the type's vertex count, makes
\* the call fail with a shape mismatch and the writer is never called; every
\* other block (polygonN of width N, an unrecognised type of any width) passes.
C5_WriteValidatesBlocks_Original ==
    WriterFound =>
        LET cells == call.mesh
            bad == {i \in 1..Len(cells) : Mismatched(cells[i])}
        IN  IF bad # {}
            THEN /\ ~result.ok /\ delegated = <<>>
                 /\ result.exc = "WriteError"
                 /\ result.why \in {"polygon_shape", "cell_shape"}
            ELSE result.ok /\ Len(delegated) = 1

\* C5, amended: a key that starts with "polygon" and is no polygonN does not
\* pass as an unrecognised type: it makes the call fail with ValueError. The
\* first offending block of the mesh decides the error; with any offending
\* block the writer is never called, and with none it is called once with the
\* file name, the mesh and the options it was given.
C5_WriteValidatesBlocks ==
    call.op = "write" =>
        LET cells == call.mesh
            bad == {i \in 1..Len(cells) : Mismatched(cells[i])}
            malformed == {i \in 1..Len(cells) : MalformedKey(cells[i])}
            offending == bad \cup malformed
        IN  /\ offending # {} => ~result.ok /\ delegated = <<>>
            /\ (WriterFound /\ offending # {}) =>
                  LET first == CHOOSE i \in offending : \A j \in offending : i <= j
                  IN  IF first \in malformed
                      THEN result.exc = "ValueError" /\ result.why = "polygon_key_malformed"
                      ELSE /\ result.exc = "WriteError"
                           /\ result.why = IF PolygonN(cells[first])
                                           THEN "polygon_shape" ELSE "cell_shape"
            /\ (WriterFound /\ offending = {}) =>
                  /\ result.ok
                  /\ delegated = <<[by |-> result.value.by, filename |-> call.filename,
                                    mesh |-> cells, kwargs |-> call.kwargs]>>
                  /\ result.value.by \in {WriterOf(n) : n \in FormatNames}

\* a writer is registered, the first block passes (an unrecognised type of
\* width 5) and the second, a quad of width 5, is refused
C5_Witness ==
    /\ WriterFound
    /\ Len(call.mesh) = 2
    /\ call.mesh[1] = [type |-> "customXYZ", ncols |-> 5]
    /\ call.mesh[2] = [type |-> "quad", ncols |-> 5]
    /\ ~result.ok /\ result.why = "cell_shape"

(***************************************************************************)
(* 2. The ragged list decoder (_ply.py, _read_binary_list)                 *)
(***************************************************************************)

\* the most records of a list, and the largest count of a record
MaxRecords == 3
MaxCount == 5

\* buffer[a:b] of Python: the bytes at offsets a .. b-1, cut to the buffer
Slice(buffer, a, b) ==
    LET hi == IF b > Len(buffer) THEN Len(buffer) ELSE b
    IN  IF a >= hi THEN <<>> ELSE SubSeq(buffer, a + 1, hi)

\* int.from_bytes(bytes, byteorder): unsigned
RECURSIVE from_bytes(_, _)
from_bytes(bytes, byteorder) ==
    IF bytes = <<>> THEN 0
    ELSE IF byteorder = "little"
         THEN Head(bytes) + 256 * from_bytes(Tail(bytes), byteorder)
         ELSE from_bytes(SubSeq(bytes, 1, Len(bytes) - 1), byteorder) * 256 + bytes[Len(bytes)]

\* the bytes of value v in an item of `itemsize` bytes (what tobytes() writes)
RECURSIVE to_bytes(_, _, _)
to_bytes(v, itemsize, byteorder) ==
    IF itemsize = 0 THEN <<>>
    ELSE IF byteorder = "little"
         THEN <<v % 256>> \o to_bytes(v \div 256, itemsize - 1, byteorder)
         ELSE to_bytes(v \div 256, itemsize - 1, byteorder) \o <<v % 256>>

ByteOrderOf(endianness) == IF endianness = "<" THEN "little" ELSE "big"

\* the generator parse_ragged(start, num_cells): the offsets it yields after
\* `at`, for the `left` records still to walk
RECURSIVE parse_ragged(_, _, _, _, _, _)
parse_ragged(buffer, count_itemsize, data_itemsize, byteorder, at, left) ==
    IF left = 0 THEN <<>>
    ELSE LET count == from_bytes(Slice(buffer, at, at + count_itemsize), byteorder)
             next == at + count * data_itemsize + count_itemsize
         IN  <<next>> \o parse_ragged(buffer, count_itemsize, data_itemsize, byteorder,
                                      next, left - 1)

\* parse_ragged with the count field left out of the advance: a mutant
RECURSIVE parse_ragged_no_count_field(_, _, _, _, _, _)
parse_ragged_no_count_field(buffer, count_itemsize, data_itemsize, byteorder, at, left) ==
    IF left = 0 THEN <<>>
    ELSE LET count == from_bytes(Slice(buffer, at, at + count_itemsize), byteorder)
             next == at + count * data_itemsize
         IN  <<next>> \o parse_ragged_no_count_field(buffer, count_itemsize, data_itemsize,
                                                     byteorder, next, left - 1)

\* np.diff
diff(a) == [i \in 1..(Len(a) - 1) |-> a[i + 1] - a[i]]

\* np.nonzero(np.diff(row_lengths))[0] + 1: the row ids (from 0) at which the
\* row length changes, in increasing order
RECURSIVE count_changed_from(_, _)
count_changed_from(row_lengths, i) ==
    IF i >= Len(row_lengths) THEN <<>>
    ELSE (IF row_lengths[i + 1] # row_lengths[i] THEN <<i>> ELSE <<>>)
         \o count_changed_from(row_lengths, i + 1)

count_changed_ids(row_lengths) == count_changed_from(row_lengths, 1)

\* the loop that fills block_bounds: the (start, end) row ids of each block
RECURSIVE bounds_from(_, _, _)
bounds_from(changed, start, last) ==
    IF changed = <<>> THEN <<<<start, last>>>>
    ELSE <<<<start, Head(changed)>>>> \o bounds_from(Tail(changed), Head(changed), last)

\* a decoder that never splits: one block for the whole list
find_block_bounds_one_block(starts_ends) == <<<<0, Len(starts_ends) - 1>>>>

find_block_bounds(starts_ends) ==
    bounds_from(count_changed_ids(diff(starts_ends)), 0, Len(starts_ends) - 1)

_cell_type_from_count == (1 :> "vertex") @@ (2 :> "line") @@ (3 :> "triangle") @@ (4 :> "quad")

\* cell_type_from_count
cell_type_from_count(count) ==
    IF count \in DOMAIN _cell_type_from_count
    THEN _cell_type_from_count[count]
    ELSE "polygon" \o Str(count)

\* np.frombuffer(block_buffer, dtype=[("count", ...), ("data", data_dtype * n)])["data"]:
\* the rows of a block, each the n data items that follow its count field
rows_of_block(block_buffer, count_itemsize, data_itemsize, byteorder, n) ==
    LET stride == count_itemsize + n * data_itemsize
    IN  [r \in 1..(Len(block_buffer) \div stride) |->
            [j \in 1..n |->
                LET at == (r - 1) * stride + count_itemsize + (j - 1) * data_itemsize
                IN  from_bytes(Slice(block_buffer, at, at + data_itemsize), byteorder)]]

\* One turn of the loop over block_bounds, past the `continue` of an empty
\* block: the CellBlock, or the exception.
\* With cells_per_row = 1 the row type is built from data_dtype * 1, which numpy
\* (1.17 and later, with a FutureWarning) reads as the scalar data_dtype: the
\* "data" field is then one-dimensional and cells.shape[1] raises IndexError. A
\* numpy that reads it as a sub-array of one item yields a vertex block; which
\* one the build runs on is `scalar_of_one`.
parse_block(buffer, starts_ends, count_itemsize, data_itemsize, byteorder, scalar_of_one, bound) ==
    LET start == bound[1]
        end == bound[2]
        row_lengths == diff(starts_ends)
        block_buffer == Slice(buffer, starts_ends[start + 1], starts_ends[end + 1])
        cells_per_row == (row_lengths[start + 1] - count_itemsize) \div data_itemsize
    IN  IF cells_per_row = 1 /\ scalar_of_one
        THEN Raise("IndexError", "cells.shape[1]")
        ELSE Return([type |-> cell_type_from_count(cells_per_row),
                     data |-> rows_of_block(block_buffer, count_itemsize, data_itemsize,
                                            byteorder, cells_per_row)])

\* the first exception among the outcomes, or None
FirstRaised(outcomes) ==
    IF \E i \in 1..Len(outcomes) : ~outcomes[i].ok
    THEN outcomes[CHOOSE i \in 1..Len(outcomes) :
                    ~outcomes[i].ok /\ \A j \in 1..(i - 1) : outcomes[j].ok]
    ELSE None

\* _read_binary_list(buffer, count_dtype, data_dtype, num_cells, endianness):
\* the consumed bytes and the blocks, or the exception
_read_binary_list(buffer, count_itemsize, data_itemsize, num_cells, endianness, scalar_of_one) ==
    LET byteorder == ByteOrderOf(endianness)
        starts_ends == <<0>> \o parse_ragged(buffer, count_itemsize, data_itemsize,
                                             byteorder, 0, num_cells)
        bounds == SelectSeq(find_block_bounds(starts_ends), LAMBDA b : b[1] # b[2])
        parsed == [i \in 1..Len(bounds) |->
                      parse_block(buffer, starts_ends, count_itemsize, data_itemsize,
                                  byteorder, scalar_of_one, bounds[i])]
    IN  IF \E i \in 1..Len(parsed) : ~parsed[i].ok THEN FirstRaised(parsed)
        ELSE Return([consumed |-> starts_ends[Len(starts_ends)],
                     blocks |-> [i \in 1..Len(parsed) |-> parsed[i].value]])

\* --- the decoder on its own: buffers built from rows, decoded step by step

\* the data of the rows the test buffers hold: row i (from 1), item j (from 1)
DataValue(i, j) == 250 + 7 * i + j

RowsOf(lengths) == [i \in 1..Len(lengths) |-> [j \in 1..lengths[i] |-> DataValue(i, j)]]

RECURSIVE ConcatAll(_)
ConcatAll(seqs) == IF seqs = <<>> THEN <<>> ELSE Head(seqs) \o ConcatAll(Tail(seqs))

\* one record on the wire: [count][count data items]
EncodeRow(row, count_itemsize, data_itemsize, byteorder) ==
    to_bytes(Len(row), count_itemsize, byteorder)
    \o ConcatAll([j \in 1..Len(row) |-> to_bytes(row[j], data_itemsize, byteorder)])

EncodeRows(rows, count_itemsize, data_itemsize, byteorder) ==
    ConcatAll([i \in 1..Len(rows) |-> EncodeRow(rows[i], count_itemsize, data_itemsize, byteorder)])

\* the record lengths of the specification's example
SixRecords == <<3, 3, 3, 4, 4, 5>>

TestLengths == SeqsUpTo(0..MaxCount, MaxRecords) \cup {SixRecords}

\* bytes of a later property that follow the list in the buffer
TrailingBytes == <<7, 0, 9>>

InitList ==
    /\ IdleFacade
    /\ IdleHeader
    /\ IdlePly
    /\ \E lengths \in TestLengths, count_itemsize \in {1, 2}, data_itemsize \in {2, 4},
          endianness \in {"<", ">"}, trailing \in BOOLEAN, scalar_of_one \in BOOLEAN :
          list_args = [rows |-> RowsOf(lengths),
                       buffer |-> EncodeRows(RowsOf(lengths), count_itemsize, data_itemsize,
                                             ByteOrderOf(endianness))
                                  \o (IF trailing THEN TrailingBytes ELSE <<>>),
                       count_itemsize |-> count_itemsize,
                       data_itemsize |-> data_itemsize,
                       num_cells |-> Len(lengths),
                       endianness |-> endianness,
                       scalar_of_one |-> scalar_of_one]
    /\ list_pc = [at |-> "walk", index |-> 0]
    /\ byte_starts_ends = <<>>
    /\ block_bounds = <<>>
    /\ blocks = <<>>
    /\ list_result = IdleResult

\* np.fromiter(parse_ragged(0, num_cells), np.intp, num_cells + 1)
WalkBuffer ==
    /\ list_pc.at = "walk"
    /\ byte_starts_ends' = <<0>> \o parse_ragged(list_args.buffer, list_args.count_itemsize,
                                                 list_args.data_itemsize,
                                                 ByteOrderOf(list_args.endianness),
                                                 0, list_args.num_cells)
    /\ list_pc' = [at |-> "bounds", index |-> 0]
    /\ UNCHANGED <<list_args, block_bounds, blocks, list_result, notList>>

\* row_lengths, count_changed_ids and the loop that fills block_bounds
FindBlockBounds ==
    /\ list_pc.at = "bounds"
    /\ block_bounds' = find_block_bounds(byte_starts_ends)
    /\ list_pc' = [at |-> "blocks", index |-> 1]
    /\ UNCHANGED <<list_args, byte_starts_ends, blocks, list_result, notList>>

\* the loop over block_bounds: `if start == end: continue`
SkipEmptyBlock ==
    /\ list_pc.at = "blocks"
    /\ list_pc.index <= Len(block_bounds)
    /\ block_bounds[list_pc.index][1] = block_bounds[list_pc.index][2]
    /\ list_pc' = [at |-> "blocks", index |-> list_pc.index + 1]
    /\ UNCHANGED <<list_args, byte_starts_ends, block_bounds, blocks, list_result, notList>>

\* the loop over block_bounds: one block parsed and appended, or the exception
ParseBlock ==
    /\ list_pc.at = "blocks"
    /\ list_pc.index <= Len(block_bounds)
    /\ block_bounds[list_pc.index][1] # block_bounds[list_pc.index][2]
    /\ LET parsed == parse_block(list_args.buffer, byte_starts_ends,
                                 list_args.count_itemsize, list_args.data_itemsize,
                                 ByteOrderOf(list_args.endianness),
                                 list_args.scalar_of_one, block_bounds[list_pc.index])
       IN  IF parsed.ok
           THEN /\ blocks' = Append(blocks, parsed.value)
                /\ list_pc' = [at |-> "blocks", index |-> list_pc.index + 1]
                /\ UNCHANGED list_result
           ELSE /\ list_result' = parsed
                /\ list_pc' = [at |-> "raised", index |-> list_pc.index]
                /\ UNCHANGED blocks
    /\ UNCHANGED <<list_args, byte_starts_ends, block_bounds, notList>>

\* return byte_starts_ends[-1], blocks
ReturnBlocks ==
    /\ list_pc.at = "blocks"
    /\ list_pc.index > Len(block_bounds)
    /\ list_result' = Return([consumed |-> byte_starts_ends[Len(byte_starts_ends)],
                              blocks |-> blocks])
    /\ list_pc' = [at |-> "done", index |-> 0]
    /\ UNCHANGED <<list_args, byte_starts_ends, block_bounds, blocks, notList>>

NextList == WalkBuffer \/ FindBlockBounds \/ SkipEmptyBlock \/ ParseBlock \/ ReturnBlocks

SpecList == InitList /\ [][NextList]_vars

ListEnded == list_pc.at \in {"done", "raised"}

\* the claim's tag of a row length
TagOfLength(n) ==
    CASE n = 1 -> "vertex" [] n = 2 -> "line" [] n = 3 -> "triangle" [] n = 4 -> "quad"
      [] OTHER -> "polygon" \o Str(n)

\* the maximal runs of consecutive rows of equal length, in order: each with the
\* tag of its length and its rows
RECURSIVE RunsOf(_)
RunsOf(rows) ==
    IF rows = <<>> THEN <<>>
    ELSE LET before == RunsOf(SubSeq(rows, 1, Len(rows) - 1))
             row == rows[Len(rows)]
         IN  IF before # <<>> /\ before[Len(before)].type = TagOfLength(Len(row))
             THEN [before EXCEPT ![Len(before)].data = Append(@, row)]
             ELSE Append(before, [type |-> TagOfLength(Len(row)), data |-> <<row>>])

RECURSIVE SumOf(_)
SumOf(a) == IF a = <<>> THEN 0 ELSE Head(a) + SumOf(Tail(a))

\* the bytes the rows take in the buffer
BytesOfRows(a) ==
    SumOf([i \in 1..Len(a.rows) |-> a.count_itemsize + Len(a.rows[i]) * a.data_itemsize])

\* the decoder returned what C2 says
DecodedAsRuns ==
    /\ list_pc.at = "done"
    /\ list_result.ok
    /\ list_result.value.consumed = BytesOfRows(list_args)
    /\ list_result.value.blocks = RunsOf(list_args.rows)
    /\ SumOf([i \in 1..Len(list_result.value.blocks) |->
                Len(list_result.value.blocks[i].data)]) = list_args.num_cells
    /\ list_args.num_cells = 0 =>
          list_result.value.blocks = <<>> /\ list_result.value.consumed = 0

\* C2: for every buffer that holds num_records rows [count][count items],
\* _read_binary_list returns the bytes the rows take and one block per maximal
\* run of rows of equal length, in file order, tagged vertex/line/triangle/quad
\* for lengths 1/2/3/4 and polygon<length> otherwise, with the rows' data; with
\* no record it returns no block and offset 0.
C2_DecodeRuns == ListEnded => DecodedAsRuns

\* what holds of the code: the same, for the lists without a row of one item
C2_DecodeRunsWithoutSingletons ==
    (ListEnded /\ \A i \in 1..Len(list_args.rows) : Len(list_args.rows[i]) # 1)
        => DecodedAsRuns

\* the decoder ended on the buffer of the six records of lengths 3,3,3,4,4,5
SixRecordsDecoded ==
    /\ ListEnded
    /\ [i \in 1..Len(list_args.rows) |-> Len(list_args.rows[i])] = SixRecords

\* the decoder returned, for the six records, the blocks triangle, quad,
\* polygon5 with the given row counts, and consumed the bytes of the six records
SixRecordsResult(row_counts) ==
    /\ list_result.ok
    /\ LET out == list_result.value.blocks
       IN  /\ [i \in 1..Len(out) |-> out[i].type] = <<"triangle", "quad", "polygon5">>
           /\ [i \in 1..Len(out) |-> Len(out[i].data)] = row_counts
    /\ list_result.value.consumed = 6 * list_args.count_itemsize + 22 * list_args.data_itemsize

\* C3 as stated: for a buffer of six records of lengths 3,3,3,4,4,5 the decoder
\* returns 3 blocks tagged triangle, quad, polygon5 with row counts 3, 1, 2 in
\* input order, and consumes exactly the bytes of the six records.
C3_SixRecords_Original == SixRecordsDecoded => SixRecordsResult(<<3, 1, 2>>)

\* C3, amended: the row counts are 3, 2, 1 (three rows of 3, two of 4, one of
\* 5), and the blocks hold the rows' data in input order.
C3_SixRecords ==
    SixRecordsDecoded =>
        /\ SixRecordsResult(<<3, 2, 1>>)
        /\ ConcatAll([i \in 1..3 |-> list_result.value.blocks[i].data]) = list_args.rows

C3_Witness ==
    /\ SixRecordsDecoded
    /\ list_pc.at = "done"
    /\ Len(list_result.value.blocks) = 3
    /\ Len(list_args.buffer) > list_result.value.consumed

(***************************************************************************)
(* 3. The PLY header reader (read_buffer, _next_line)                      *)
(*                                                                         *)
(* A line is what f.readline().decode("utf-8").strip() yields, held as the *)
(* sequence of its words; a blank line and the empty read at the end of    *)
(* the stream are both the empty sequence.                                 *)
(***************************************************************************)

\* the most lines a stream holds
MaxLines == 6

FormatLines ==
    {<<"format", "ascii", "1.0">>,
     <<"format", "binary_little_endian", "1.0">>,
     <<"format", "binary_big_endian", "1.0">>}

\* the lines a stream is made of
HeaderLines ==
    {<<"ply">>, <<"comment", "x">>, <<>>, <<"end_header">>, <<"obj_info", "a">>,
     <<"format", "ascii", "2.0">>,
     <<"element", "vertex", "2">>, <<"element", "face", "1">>, <<"element", "edge", "1">>,
     <<"property", "float", "x">>,
     <<"property", "list", "uchar", "int32", "vertex_indices">>,
     <<"property", "x">>, <<"property", "list", "uchar", "x">>}
    \cup FormatLines

\* " ".join(words)
RECURSIVE JoinWords(_)
JoinWords(words) ==
    IF words = <<>> THEN ""
    ELSE IF Len(words) = 1 THEN words[1]
    ELSE words[1] \o " " \o JoinWords(Tail(words))

\* line and line[:7] != "comment"
significant(l) == l # <<>> /\ Head(l) # "comment"

\* line[:8] == "property", line[:8] == "obj_info", line[:13] == "property list"
starts_with(l, word) == l # <<>> /\ Head(l) = word
starts_with_property_list(l) == Len(l) >= 2 /\ l[1] = "property" /\ l[2] = "list"

\* re.match("element <kind> (\\d+)", line): the groups, or <<>> for None;
\* the pattern is not anchored at the end of the line
re_match_element(kind, l) ==
    IF Len(l) >= 3 /\ l[1] = "element" /\ l[2] = kind /\ IsDigits(l[3])
    THEN <<l[3]>> ELSE <<>>

\* re.match("property (.+) (.+)", line): greedy, so the last word is the name
re_match_property(l) ==
    IF Len(l) >= 3 /\ l[1] = "property"
    THEN <<JoinWords(SubSeq(l, 2, Len(l) - 1)), l[Len(l)]>> ELSE <<>>

\* re.match("property list (.+) (.+) (.+)", line)
re_match_property_list(l) ==
    IF Len(l) >= 5 /\ l[1] = "property" /\ l[2] = "list"
    THEN <<JoinWords(SubSeq(l, 3, Len(l) - 2)), l[Len(l) - 1], l[Len(l)]>> ELSE <<>>

\* the lines a readline may yield: any line when the stream is any stream, the
\* lines of the file when the stream is the file written
StreamLines ==
    IF ply_pc = "idle" THEN HeaderLines
    ELSE {fh.lines[i] : i \in 1..Len(fh.lines)} \cup {<<>>}

\* f.readline() yields l: the next line of the stream, or the empty read at
\* (and ever after) its end
readline(l) ==
    \/ /\ ~f_eof
       /\ IF ply_pc = "idle" THEN Len(f_lines) < MaxLines
          ELSE Len(f_lines) < Len(fh.lines) /\ l = fh.lines[Len(f_lines) + 1]
       /\ f_lines' = Append(f_lines, l)
       /\ empty_reads' = 0
    \/ /\ l = <<>>
       /\ ply_pc = "idle" \/ Len(f_lines) >= Len(fh.lines)
       /\ f_lines' = f_lines
       /\ empty_reads' = IF empty_reads = 1 THEN 2 ELSE 1

\* read_buffer is called on a stream
InitHeader ==
    /\ IdleFacade
    /\ IdleList
    /\ IdlePly
    /\ f_lines = <<>>
    /\ empty_reads = 0
    /\ header_pc = "magic"
    /\ return_to = None
    /\ line = <<>>
    /\ header = EmptyHeader
    /\ header_result = IdleResult

\* line = _next_line(f), then go on at label
call_next_line(label) ==
    /\ header_pc' = "next_line"
    /\ return_to' = label

header_raise(exc, why) ==
    /\ header_pc' = "raised"
    /\ header_result' = Raise(exc, why)

\* lines 84-88: the first line is read as it is
ReadMagic ==
    /\ header_pc = "magic"
    /\ \E l \in StreamLines :
          /\ readline(l)
          /\ line' = l
          /\ IF l # <<"ply">>
             THEN header_raise("ReadError", "Expected ply") /\ UNCHANGED return_to
             ELSE call_next_line("format") /\ UNCHANGED header_result
    /\ UNCHANGED <<header, notHeader>>

\* _next_line: one turn of its loop
NextLine ==
    /\ header_pc = "next_line"
    /\ \E l \in StreamLines :
          /\ readline(l)
          /\ IF significant(l)
             THEN line' = l /\ header_pc' = return_to /\ return_to' = None
             ELSE UNCHANGED <<line, header_pc, return_to>>
    /\ UNCHANGED <<header, header_result, notHeader>>

\* lines 89-102
ParseFormat ==
    /\ header_pc = "format"
    /\ IF line = <<"format", "ascii", "1.0">>
       THEN /\ header' = [header EXCEPT !.is_binary = FALSE, !.endianness = None]
            /\ call_next_line("loop") /\ UNCHANGED header_result
       ELSE IF line = <<"format", "binary_big_endian", "1.0">>
       THEN /\ header' = [header EXCEPT !.is_binary = TRUE, !.endianness = ">"]
            /\ call_next_line("loop") /\ UNCHANGED header_result
       ELSE IF line # <<"format", "binary_little_endian", "1.0">>
       THEN header_raise("ReadError", "") /\ UNCHANGED <<header, return_to>>
       ELSE /\ header' = [header EXCEPT !.is_binary = TRUE, !.endianness = "<"]
            /\ call_next_line("loop") /\ UNCHANGED header_result
    /\ UNCHANGED <<f_lines, empty_reads, line, notHeader>>

\* lines 109-116, 124-131, 142-171: one test of the outer while loop and the
\* branch it takes; at end_header the body decoder is entered
HeaderLoop ==
    /\ header_pc = "loop"
    /\ LET m_vert == re_match_element("vertex", line)
           m_face == re_match_element("face", line)
       IN  IF line = <<"end_header">>
           THEN header_pc' = "body" /\ UNCHANGED <<header, return_to, header_result>>
           ELSE IF starts_with(line, "obj_info")
           THEN call_next_line("loop") /\ UNCHANGED <<header, header_result>>
           ELSE IF m_vert # <<>>
           THEN /\ header' = [header EXCEPT !.num_verts = Int_(m_vert[1])]
                /\ call_next_line("vertex_properties") /\ UNCHANGED header_result
           ELSE IF m_face # <<>>
           THEN /\ header' = [header EXCEPT !.num_cells = Int_(m_face[1])]
                /\ call_next_line("face_properties") /\ UNCHANGED header_result
           ELSE /\ header_raise("ReadError", "Expected element vertex or element face or obj_info")
                /\ UNCHANGED <<header, return_to>>
    /\ UNCHANGED <<f_lines, empty_reads, line, notHeader>>

\* lines 119-123: one test of the inner while loop of an element vertex
VertexProperties ==
    /\ header_pc = "vertex_properties"
    /\ IF starts_with(line, "property")
       THEN LET m == re_match_property(line)
            IN  IF m = <<>>
                THEN header_raise("AttributeError", "m.groups()") /\ UNCHANGED <<header, return_to>>
                ELSE /\ header' = [header EXCEPT
                                     !.point_data_formats = Append(@, m[1]),
                                     !.point_data_names = Append(@, m[2])]
                     /\ call_next_line("vertex_properties") /\ UNCHANGED header_result
       ELSE header_pc' = "loop" /\ UNCHANGED <<header, return_to, header_result>>
    /\ UNCHANGED <<f_lines, empty_reads, line, notHeader>>

\* lines 133-141: one test of the inner while loop of an element face
FaceProperties ==
    /\ header_pc = "face_properties"
    /\ IF starts_with(line, "property")
       THEN LET m == IF starts_with_property_list(line)
                     THEN re_match_property_list(line) ELSE re_match_property(line)
            IN  IF m = <<>>
                THEN header_raise("AttributeError", "m.groups()") /\ UNCHANGED <<header, return_to>>
                ELSE /\ header' = [header EXCEPT
                                     !.cell_data_names = Append(@, m[Len(m)]),
                                     !.cell_data_dtypes = Append(@, SubSeq(m, 1, Len(m) - 1))]
                     /\ call_next_line("face_properties") /\ UNCHANGED header_result
       ELSE header_pc' = "loop" /\ UNCHANGED <<header, return_to, header_result>>
    /\ UNCHANGED <<f_lines, empty_reads, line, notHeader>>

NextHeader ==
    \/ ReadMagic
    \/ NextLine
    \/ ParseFormat
    \/ HeaderLoop
    \/ VertexProperties
    \/ FaceProperties

SpecHeader == InitHeader /\ [][NextHeader]_vars

\* the reader runs whenever it can: a blocking call that is never cancelled
SpecHeaderFair == InitHeader /\ [][NextHeader]_vars /\ WF_vars(NextHeader)

\* ---- the grammar of a header, read over the lines consumed so far ----

IsCommentLine(l) == l # <<>> /\ Head(l) = "comment"

WithoutComments(ls) == SelectSeq(ls, LAMBDA l : ~IsCommentLine(l))

\* what the first line is followed by once blank and comment lines are skipped
SignificantAfterFirst(ls) ==
    IF ls = <<>> THEN <<>> ELSE <<Head(ls)>> \o SelectSeq(Tail(ls), significant)

IsElementLine(l) ==
    /\ Len(l) = 3 /\ l[1] = "element" /\ l[2] \in {"vertex", "face"} /\ IsDigits(l[3])

\* property <type> <name>, or property list <count type> <index type> <name>
IsPropertyLine(l) ==
    \/ Len(l) = 3 /\ l[1] = "property" /\ l[2] # "list"
    \/ Len(l) = 5 /\ l[1] = "property" /\ l[2] = "list"

\* one line of the grammar MAGIC FORMAT_LINE {element + properties | obj_info}* end_header
GrammarStep(state, l) ==
    IF state = "start" THEN (IF l = <<"ply">> THEN "format" ELSE "fail")
    ELSE IF state = "format" THEN (IF l \in FormatLines THEN "top" ELSE "fail")
    ELSE IF state \in {"top", "element"}
    THEN IF l = <<"end_header">> THEN "done"
         ELSE IF starts_with(l, "obj_info") THEN "top"
         ELSE IF IsElementLine(l) THEN "element"
         ELSE IF state = "element" /\ IsPropertyLine(l) THEN "element"
         ELSE "fail"
    ELSE state

RECURSIVE Grammar(_, _)
Grammar(state, ls) ==
    IF ls = <<>> THEN state ELSE Grammar(GrammarStep(state, Head(ls)), Tail(ls))

\* the grammar as read_buffer applies it: a property line is whatever its
\* pattern matches, and one that does not match is a crash, not a format error
ReadGrammarStep(state, l) ==
    IF state \in {"top", "vertex", "face"} /\ starts_with(l, "property")
    THEN IF state = "top" THEN "fail"
         ELSE IF state = "face" /\ starts_with_property_list(l)
         THEN (IF Len(l) >= 5 THEN state ELSE "crash")
         ELSE (IF Len(l) >= 3 THEN state ELSE "crash")
    ELSE IF state \in {"top", "vertex", "face"} /\ IsElementLine(l) THEN l[2]
    ELSE IF state \in {"vertex", "face"} THEN GrammarStep("top", l)
    ELSE GrammarStep(state, l)

RECURSIVE ReadGrammar(_, _)
ReadGrammar(state, ls) ==
    IF ls = <<>> THEN state ELSE ReadGrammar(ReadGrammarStep(state, Head(ls)), Tail(ls))

\* the reader has consumed a line it has yet to look at
LinePending == header_pc \in {"format", "loop", "vertex_properties", "face_properties"}

\* C9: the header reader accepts exactly the line sequences that, with the
\* comment lines removed everywhere, follow the grammar: it enters the body
\* decoder only on such a sequence, it does not refuse one, any failure is a
\* format error (ReadError) on a line outside the grammar or on a stream that
\* has ended, and it reads no further once a line is outside the grammar
C9_HeaderGrammar ==
    LET state == Grammar("start", WithoutComments(f_lines))
    IN  /\ header_pc = "body" => state = "done"
        /\ state = "done" => header_pc = "body" \/ LinePending
        /\ header_pc = "raised" => header_result.exc = "ReadError" /\ (state = "fail" \/ f_eof)
        /\ state = "fail" => header_pc = "raised" \/ LinePending

\* what holds instead: the first line is taken as it is, blank lines are
\* skipped like comment lines after it, and a property line its pattern does
\* not match ends the read with an AttributeError
C9_HeaderGrammarAsRead ==
    LET state == ReadGrammar("start", SignificantAfterFirst(f_lines))
    IN  /\ header_pc = "body" => state = "done"
        /\ state = "done" => header_pc = "body" \/ LinePending
        /\ header_pc = "raised" =>
              \/ header_result.exc = "ReadError" /\ (state = "fail" \/ f_eof)
              \/ header_result.exc = "AttributeError" /\ state = "crash"
        /\ state \in {"fail", "crash"} => header_pc = "raised" \/ LinePending

\* a malformed property line inside an element has ended the read
C9_MalformedPropertyRead ==
    /\ header_pc = "raised"
    /\ f_lines # <<>>
    /\ f_lines[Len(f_lines)] = <<"property", "x">>
    /\ Grammar("start", WithoutComments(SubSeq(f_lines, 1, Len(f_lines) - 1))) = "element"

\* C10: reading a finite stream terminates: the reader enters the body
\* decoder or fails
C10_ReadTerminates == <>(header_pc \in {"body", "raised"})

\* what holds instead: the read ends unless the stream does first
C10_ReadTerminatesOrStreamEnds == <>(header_pc \in {"body", "raised"} \/ f_eof)

\* the state the reader never leaves: _next_line at the end of the stream
C10_LoopsAtEndOfStream == header_pc = "next_line" /\ f_eof

(***************************************************************************)
(* 4. The PLY writer and the body decoders (write, _read_ascii,            *)
(*    _read_binary)                                                        *)
(*                                                                         *)
(* A mesh is [points, cells]: points an array [dtype, data] of coordinate  *)
(* rows, cells a list of blocks [type, dtype, data] of index rows.  A file *)
(* is its text lines (the header and, in ASCII, the body) and the bytes of *)
(* a binary body.  A coordinate is a whole number n standing for n.0.      *)
(***************************************************************************)

\* itemsize of the numpy dtypes of the model
itemsize ==
    ("int8" :> 1) @@ ("uint8" :> 1) @@ ("int16" :> 2) @@ ("uint16" :> 2)
    @@ ("int32" :> 4) @@ ("uint32" :> 4) @@ ("int64" :> 8) @@ ("uint64" :> 8)
    @@ ("float32" :> 4) @@ ("float64" :> 8)

\* ply_to_numpy_dtype
ply_to_numpy_dtype ==
    ("char" :> "int8") @@ ("uchar" :> "uint8") @@ ("short" :> "int16")
    @@ ("ushort" :> "uint16") @@ ("int" :> "int32") @@ ("int8" :> "int8")
    @@ ("int32" :> "int32") @@ ("int64" :> "int64") @@ ("uint" :> "uint32")
    @@ ("uint8" :> "uint8") @@ ("uint16" :> "uint16") @@ ("uint32" :> "uint32")
    @@ ("uint64" :> "uint64") @@ ("float" :> "float32") @@ ("float32" :> "float32")
    @@ ("float64" :> "float64") @@ ("double" :> "float64")

\* the keys of ply_to_numpy_dtype in the order the dictionary lists them
PlyTypeNames ==
    <<"char", "uchar", "short", "ushort", "int", "int8", "int32", "int64", "uint",
      "uint8", "uint16", "uint32", "uint64", "float", "float32", "float64", "double">>

\* numpy_to_ply_dtype = {np.dtype(v): k for k, v in ply_to_numpy_dtype.items()}:
\* the last key that maps to the dtype wins
numpy_to_ply_dtype ==
    [d \in DOMAIN itemsize |->
        PlyTypeNames[CHOOSE i \in 1..Len(PlyTypeNames) :
                        /\ ply_to_numpy_dtype[PlyTypeNames[i]] = d
                        /\ \A j \in (i + 1)..Len(PlyTypeNames) :
                              ply_to_numpy_dtype[PlyTypeNames[j]] # d]]

\* type_name_table of write
type_name_table ==
    [d \in DOMAIN itemsize |->
        IF d = "float32" THEN "float" ELSE IF d = "float64" THEN "double" ELSE d]

\* ply_to_numpy_dtype_string of _read_binary, as (kind, itemsize)
ply_to_numpy_dtype_string ==
    ("uchar" :> <<"i", 1>>) @@ ("uint" :> <<"u", 4>>) @@ ("uint8" :> <<"u", 1>>)
    @@ ("uint16" :> <<"u", 2>>) @@ ("uint32" :> <<"u", 4>>) @@ ("uint64" :> <<"u", 8>>)
    @@ ("int" :> <<"i", 4>>) @@ ("int8" :> <<"i", 1>>) @@ ("int32" :> <<"i", 4>>)
    @@ ("int64" :> <<"i", 8>>) @@ ("float" :> <<"f", 4>>) @@ ("float32" :> <<"f", 4>>)
    @@ ("double" :> <<"f", 8>>)

\* np.dtype of a (kind, itemsize) string such as "<i4"
dtype_of_string(kind_size) ==
    (IF kind_size[1] = "i" THEN "int" ELSE IF kind_size[1] = "u" THEN "uint" ELSE "float")
    \o Str(8 * kind_size[2])

_cell_type_to_count == [vertex |-> 1, line |-> 2, triangle |-> 3, quad |-> 4]

\* what cell_type_to_count returns for a type it does not know (None)
NoCount == -1

\* cell_type_to_count
cell_type_to_count(cell_type) ==
    IF cell_type \in DOMAIN _cell_type_to_count THEN _cell_type_to_count[cell_type]
    ELSE IF \E n \in 0..MaxNum : cell_type = "polygon" \o Str(n)
    THEN CHOOSE n \in 0..MaxNum : cell_type = "polygon" \o Str(n)
    ELSE NoCount

\* "{}".format(x) of a coordinate, and float(token)
float_str(x) == Str(x) \o ".0"
IsFloat(token) == \E x \in 0..MaxNum : float_str(x) = token
Float_(token) == CHOOSE x \in 0..MaxNum : float_str(x) = token

\* data.astype(np.int32) of one value: the low 32 bits, signed; the cast keeps
\* a value of -2^31..2^31-1, and no index of the model lies outside that range
Int32Max == 2147483647
astype_int32(v) == IF -Int32Max - 1 <= v /\ v <= Int32Max THEN v ELSE ((v + 1) % 2) - 1

\* lines 447-450: the rows of the blocks whose type has a count that is true
RECURSIVE count_cells(_)
count_cells(cells) ==
    IF cells = <<>> THEN 0
    ELSE (IF cell_type_to_count(Head(cells).type) \notin {NoCount, 0}
          THEN Len(Head(cells).data) ELSE 0)
         + count_cells(Tail(cells))

\* a cast that stops after the first int64 block
cast_down_first_only(cells) ==
    [k \in 1..Len(cells) |->
        IF cells[k].dtype = "int64" /\ \A j \in 1..(k - 1) : cells[j].dtype # "int64"
        THEN [type |-> cells[k].type, dtype |-> "int32", data |-> cells[k].data]
        ELSE cells[k]]

\* lines 455-459: every int64 block replaced by its int32 cast
cast_down(cells) ==
    [k \in 1..Len(cells) |->
        IF cells[k].dtype = "int64"
        THEN [type |-> cells[k].type, dtype |-> "int32",
              data |-> [r \in 1..Len(cells[k].data) |->
                          [j \in 1..Len(cells[k].data[r]) |-> astype_int32(cells[k].data[r][j])]]]
        ELSE cells[k]]

\* a check that looks at the blocks of known types only
dtypes_differ_in_known(cells) ==
    \E k, m \in 1..Len(cells) :
        /\ cell_type_to_count(cells[k].type) # NoCount
        /\ cell_type_to_count(cells[m].type) # NoCount
        /\ cells[k].dtype # cells[m].dtype

\* lines 466-472: some block's dtype differs from the first block's
dtypes_differ(cells) == \E k \in 1..Len(cells) : cells[k].dtype # cells[1].dtype

dim_names == <<"x", "y", "z">>

\* lines 395-432: the header down to the vertex properties
header_top(points, binary, byteorder) ==
    <<<<"ply">>,
      IF binary THEN <<"format", "binary_" \o byteorder \o "_endian", "1.0">>
      ELSE <<"format", "ascii", "1.0">>,
      <<"comment", "Created", "by", "meshio">>,
      <<"element", "vertex", Str(Len(points.data))>>>>
    \o [k \in 1..Len(points.data[1]) |-> <<"property", type_name_table[points.dtype], dim_names[k]>>]

\* lines 487-488: the vertex records of a binary body
points_bytes(points, byteorder) ==
    ConcatAll([r \in 1..Len(points.data) |->
        ConcatAll([k \in 1..Len(points.data[r]) |->
            to_bytes(points.data[r][k], itemsize[points.dtype], byteorder)])])

\* lines 491-504: the face records of a binary body; a block of an unknown
\* type is skipped with a warning
cells_bytes(cells, byteorder) ==
    ConcatAll([k \in 1..Len(cells) |->
        IF cell_type_to_count(cells[k].type) = NoCount THEN <<>>
        ELSE EncodeRows(cells[k].data, 1, itemsize[cells[k].dtype], byteorder)])

skip_warnings(cells) ==
    [k \in 1..Len(SelectSeq(cells, LAMBDA c : cell_type_to_count(c.type) = NoCount)) |->
        "is not supported by ply format - skipping"]

\* "\n".join(rows) + "\n": no rows leave one empty line
joined_lines(rows) == IF rows = <<>> THEN <<<<>>>> ELSE rows

\* lines 509-512: the vertex lines of an ASCII body
points_lines(points) ==
    joined_lines([r \in 1..Len(points.data) |->
        [k \in 1..Len(points.data[r]) |-> float_str(points.data[r][k])]])

\* lines 515-525: the face lines of an ASCII body, of every block
cells_lines(cells) ==
    ConcatAll([k \in 1..Len(cells) |->
        joined_lines([r \in 1..Len(cells[k].data) |->
            <<Str(Len(cells[k].data[r]))>>
            \o [j \in 1..Len(cells[k].data[r]) |-> Str(cells[k].data[r][j])]])])

cast_warning == "PLY doesn't support 64-bit integers. Casting down to 32-bit."

\* write(filename, mesh, binary) on a platform of the given sys.byteorder: the
\* exception if any, the caller's mesh afterwards, what the file holds and the
\* warnings issued
ply_write(mesh_in, binary_in, byteorder) ==
    LET num_cells == count_cells(mesh_in.cells)
        has_cast == num_cells > 0 /\ \E k \in 1..Len(mesh_in.cells) : mesh_in.cells[k].dtype = "int64"
        cells == IF num_cells > 0 THEN cast_down(mesh_in.cells) ELSE mesh_in.cells
        mesh_out == [points |-> mesh_in.points, cells |-> cells]
        top == header_top(mesh_in.points, binary_in, byteorder)
                \o (IF num_cells > 0 THEN <<<<"element", "face", Str(num_cells)>>>> ELSE <<>>)
        cast == IF has_cast THEN <<cast_warning>> ELSE <<>>
        head == top
                \o (IF num_cells > 0
                    THEN <<<<"property", "list", "uint8", numpy_to_ply_dtype[cells[1].dtype],
                             "vertex_indices">>>>
                    ELSE <<>>)
                \o <<<<"end_header">>>>
    IN  IF num_cells > 0 /\ dtypes_differ(cells)
        THEN [exc |-> "WriteError", mesh |-> mesh_out, lines |-> top, bytes |-> <<>>,
              warnings |-> cast]
        ELSE IF binary_in
        THEN [exc |-> None, mesh |-> mesh_out, lines |-> head,
              bytes |-> points_bytes(mesh_in.points, byteorder) \o cells_bytes(cells, byteorder),
              warnings |-> cast \o skip_warnings(cells)]
        ELSE [exc |-> None, mesh |-> mesh_out,
              lines |-> head \o points_lines(mesh_in.points) \o cells_lines(cells),
              bytes |-> <<>>, warnings |-> cast]

\* ---- _read_ascii ----

\* np.genfromtxt(f, max_rows=max_rows, dtype=...) on the lines ahead: the rows
\* of tokens it takes and the lines it consumes; empty lines are passed over
RECURSIVE genfromtxt(_, _, _, _)
genfromtxt(lines_ahead, max_rows, rows, consumed) ==
    IF Len(rows) = max_rows \/ consumed = Len(lines_ahead) THEN <<rows, consumed>>
    ELSE LET l == lines_ahead[consumed + 1]
         IN  genfromtxt(lines_ahead, max_rows,
                        IF l = <<>> THEN rows ELSE Append(rows, l), consumed + 1)

\* d[key].append(item) on a defaultdict(list), held as the list of its
\* <<key, list>> items in insertion order
dict_append(d, key, item) ==
    IF \E i \in 1..Len(d) : d[i][1] = key
    THEN [i \in 1..Len(d) |-> IF d[i][1] = key THEN <<key, Append(d[i][2], item)>> ELSE d[i]]
    ELSE Append(d, <<key, <<item>>>>)

\* dtype(token) for a numpy scalar type
IsNumber(dtype, token) == IF dtype \in {"float32", "float64"} THEN IsFloat(token) ELSE IsDigits(token)
Number(dtype, token) == IF dtype \in {"float32", "float64"} THEN Float_(token) ELSE Int_(token)

\* lines 220-230, on the first face line: the value n is left with
RECURSIVE first_line_n(_, _, _, _)
first_line_n(data, names, i, n) ==
    IF names = <<>> THEN Return(n)
    ELSE IF Head(names) # "vertex_indices" THEN first_line_n(data, Tail(names), i + 1, 1)
    ELSE IF i >= Len(data) THEN Raise("IndexError", "data[i]")
    ELSE IF ~IsDigits(data[i + 1]) THEN Raise("ValueError", "int(data[i])")
    ELSE first_line_n(data, Tail(names), i + Int_(data[i + 1]) + 1, Int_(data[i + 1]))

\* lines 232-243, on one face line: polygons, cell_data and n afterwards
RECURSIVE face_line(_, _, _, _, _, _, _)
face_line(data, names, dtypes, i, n, polygons, cell_data) ==
    IF names = <<>> THEN Return(<<polygons, cell_data, n>>)
    ELSE IF Head(names) = "vertex_indices"
    THEN IF i >= Len(data) THEN Raise("IndexError", "data[i]")
         ELSE IF ~IsDigits(data[i + 1]) THEN Raise("ValueError", "int(data[i])")
         ELSE IF Len(Head(dtypes)) # 2 \/ Head(dtypes)[2] \notin DOMAIN ply_to_numpy_dtype
         THEN Raise("KeyError", "ply_to_numpy_dtype[dtype[1]]")
         ELSE LET count == Int_(data[i + 1])
                  dtype == ply_to_numpy_dtype[Head(dtypes)[2]]
              IN  IF i + count + 1 > Len(data) THEN Raise("IndexError", "data[j]")
                  ELSE IF \E j \in (i + 2)..(i + count + 1) : ~IsNumber(dtype, data[j])
                  THEN Raise("ValueError", "dtype(data[j])")
                  ELSE face_line(data, Tail(names), Tail(dtypes), i + count + 1, count,
                                 dict_append(polygons, count,
                                             [j \in 1..count |-> Number(dtype, data[i + 1 + j])]),
                                 cell_data)
    ELSE IF Len(Head(dtypes)) # 1 \/ Head(dtypes)[1] \notin DOMAIN ply_to_numpy_dtype
    THEN Raise("KeyError", "ply_to_numpy_dtype[dtype]")
    ELSE LET dtype == ply_to_numpy_dtype[Head(dtypes)[1]]
         IN  IF i >= Len(data) THEN Raise("IndexError", "data[j]")
             ELSE IF ~IsNumber(dtype, data[i + 1]) THEN Raise("ValueError", "dtype(data[j])")
             ELSE face_line(data, Tail(names), Tail(dtypes), i + 1, n, polygons,
                            [cell_data EXCEPT ![Head(names)] =
                                dict_append(@, n, Number(dtype, data[i + 1]))])

\* lines 215-243: the loop over the num_cells face lines, from line k on; a
\* readline at the end of the file yields an empty line
RECURSIVE face_lines(_, _, _, _, _, _, _, _)
face_lines(lines_ahead, k, num_cells, names, dtypes, n, polygons, cell_data) ==
    IF k = num_cells THEN Return(<<polygons, cell_data, n>>)
    ELSE LET data == IF k < Len(lines_ahead) THEN lines_ahead[k + 1] ELSE <<>>
             first == IF k = 0 THEN first_line_n(data, names, 0, n) ELSE Return(n)
         IN  IF ~first.ok THEN first
             ELSE LET done == face_line(data, names, dtypes, 0, first.value, polygons,
                                        IF k = 0
                                        THEN [name \in {names[j] : j \in 1..Len(names)}
                                                       \ {"vertex_indices"} |-> <<>>]
                                        ELSE cell_data)
                  IN  IF ~done.ok THEN done
                      ELSE face_lines(lines_ahead, k + 1, num_cells, names, dtypes,
                                      done.value[3], done.value[1], done.value[2])

\* what a token that is no number is read as
NaN == -1

\* the index of a name in a list of names (list.index), 0 if it is not there
index_of(names, name) ==
    IF \E i \in 1..Len(names) : names[i] = name
    THEN CHOOSE i \in 1..Len(names) : names[i] = name /\ \A j \in 1..(i - 1) : names[j] # name
    ELSE 0

\* the CellBlocks built from polygons.items() (lines 245-248)
blocks_of_polygons(polygons, dtype) ==
    [b \in 1..Len(polygons) |->
        [type |-> cell_type_from_count(polygons[b][1]), dtype |-> dtype,
         data |-> polygons[b][2]]]

\* _read_ascii on the lines that follow the header
_read_ascii(lines_ahead, h) ==
    LET names == h.point_data_names
        formats == h.point_data_formats
        taken == genfromtxt(lines_ahead, h.num_verts, <<>>, 0)
        pd == taken[1]
        columns == SelectSeq(<<1, 2, 3>>, LAMBDA c : names[c] = dim_names[c])
        at_indices == index_of(h.cell_data_names, "vertex_indices")
        faces == face_lines(SubSeq(lines_ahead, taken[2] + 1, Len(lines_ahead)), 0, h.num_cells,
                            h.cell_data_names, h.cell_data_dtypes, 0, <<>>, <<>>)
    IN  IF \E i \in 1..Len(formats) : formats[i] \notin DOMAIN ply_to_numpy_dtype
        THEN Raise("KeyError", "ply_to_numpy_dtype[fmt]")
        ELSE IF h.num_verts < 1 THEN Raise("ValueError", "max_rows must be at least 1")
        ELSE IF \E r \in 1..Len(pd) : Len(pd[r]) # Len(names)
        THEN Raise("ValueError", "genfromtxt: wrong number of columns")
        ELSE IF Len(names) < 3 THEN Raise("IndexError", "point_data_names[k]")
        ELSE IF columns = <<>> THEN Raise("ValueError", "np.column_stack")
        ELSE IF ~faces.ok THEN faces
        ELSE Return([points |->
                        [dtype |-> ply_to_numpy_dtype[formats[columns[1]]],
                         data |-> [r \in 1..Len(pd) |->
                                     [c \in 1..Len(columns) |->
                                        IF IsFloat(pd[r][columns[c]])
                                        THEN Float_(pd[r][columns[c]]) ELSE NaN]]],
                     cells |-> blocks_of_polygons(
                                  faces.value[1],
                                  IF at_indices = 0 THEN None
                                  ELSE ply_to_numpy_dtype[h.cell_data_dtypes[at_indices][2]]),
                     cell_data |-> faces.value[2]])

\* ---- _read_binary ----

RECURSIVE Total(_)
Total(sizes) == IF sizes = <<>> THEN 0 ELSE Head(sizes) + Total(Tail(sizes))

\* lines 314-325: the loop over the face properties, from buffer_position on;
\* cell_data is held as the list of its <<name, value>> items
RECURSIVE binary_cell_data(_, _, _, _, _, _, _, _)
binary_cell_data(buffer, names, dts, buffer_position, num_cells, endianness, scalar_of_one, cell_data) ==
    IF names = <<>> THEN Return(cell_data)
    ELSE IF Len(Head(dts)) = 2
    THEN LET list == _read_binary_list(Slice(buffer, buffer_position, Len(buffer)),
                                       Head(dts)[1][2], Head(dts)[2][2], num_cells,
                                       endianness, scalar_of_one)
         IN  IF ~list.ok THEN list
             ELSE binary_cell_data(buffer, Tail(names), Tail(dts),
                                   buffer_position + list.value.consumed, num_cells,
                                   endianness, scalar_of_one,
                                   Append(cell_data,
                                          <<Head(names),
                                            [b \in 1..Len(list.value.blocks) |->
                                               [type |-> list.value.blocks[b].type,
                                                dtype |-> dtype_of_string(Head(dts)[2]),
                                                data |-> list.value.blocks[b].data]]>>))
    ELSE LET buffer_increment == Head(dts)[1][2]
             item == Slice(buffer, buffer_position, buffer_position + buffer_increment)
         IN  IF Len(item) < buffer_increment
             THEN Raise(IF item = <<>> THEN "IndexError" ELSE "ValueError", "np.frombuffer(...)[0]")
             ELSE binary_cell_data(buffer, Tail(names), Tail(dts),
                                   buffer_position + buffer_increment, num_cells,
                                   endianness, scalar_of_one,
                                   Append(cell_data,
                                          <<Head(names), from_bytes(item, ByteOrderOf(endianness))>>))

\* the value of a <<name, value>> item list at a name, or the default
pop(items, name, default) ==
    IF index_of([i \in 1..Len(items) |-> items[i][1]], name) = 0 THEN default
    ELSE items[index_of([i \in 1..Len(items) |-> items[i][1]], name)][2]

\* _read_binary on the bytes that follow the header
_read_binary(bytes_ahead, h, scalar_of_one) ==
    LET names == h.point_data_names
        formats == h.point_data_formats
        byteorder == ByteOrderOf(h.endianness)
        sizes == [i \in 1..Len(formats) |-> ply_to_numpy_dtype_string[formats[i]][2]]
        record_size == Total(sizes)
        point_bytes == Slice(bytes_ahead, 0, h.num_verts * record_size)
        field(r, name) ==
            LET i == index_of(names, name)
                at == (r - 1) * record_size + Total(SubSeq(sizes, 1, i - 1))
            IN  from_bytes(Slice(point_bytes, at, at + sizes[i]), byteorder)
        dts == [i \in 1..Len(h.cell_data_dtypes) |->
                  [j \in 1..Len(h.cell_data_dtypes[i]) |->
                     ply_to_numpy_dtype_string[h.cell_data_dtypes[i][j]]]]
        cell_data == binary_cell_data(Slice(bytes_ahead, h.num_verts * record_size, Len(bytes_ahead)),
                                      h.cell_data_names, dts, 0, h.num_cells, h.endianness,
                                      scalar_of_one, <<>>)
    IN  IF \E i \in 1..Len(formats) : formats[i] \notin DOMAIN ply_to_numpy_dtype_string
        THEN Raise("KeyError", "ply_to_numpy_dtype_string[fmt]")
        ELSE IF record_size > 0 /\ Len(point_bytes) % record_size # 0
        THEN Raise("ValueError", "np.frombuffer")
        ELSE IF \E c \in 1..3 : index_of(names, dim_names[c]) = 0
        THEN Raise("ValueError", "no field of name")
        ELSE IF \E i \in 1..Len(h.cell_data_dtypes) : \E j \in 1..Len(h.cell_data_dtypes[i]) :
                   h.cell_data_dtypes[i][j] \notin DOMAIN ply_to_numpy_dtype_string
        THEN Raise("KeyError", "ply_to_numpy_dtype_string[dtype]")
        ELSE IF ~cell_data.ok THEN cell_data
        ELSE Return([points |->
                        [dtype |-> dtype_of_string(ply_to_numpy_dtype_string[
                                       formats[index_of(names, "x")]]),
                         data |-> [r \in 1..(Len(point_bytes) \div record_size) |->
                                     [c \in 1..3 |-> field(r, dim_names[c])]]],
                     cells |-> pop(cell_data.value, "vertex_indices", <<>>),
                     cell_data |-> SelectSeq(cell_data.value,
                                             LAMBDA item : item[1] # "vertex_indices")])

\* ---- write, then read what was written ----

\* the most blocks of a mesh and the most rows of a block
MaxCellBlocks == 2
MaxRows == 2

CellTypes == {"vertex", "triangle", "quad", "polygon5", "tetra"}

IndexDtypes == {"int16", "int32", "int64"}

\* the columns of a block of a type: its node count
WidthOf(type) == IF type = "tetra" THEN 4 ELSE cell_type_to_count(type)

\* a block of nrows rows of node indices
Block(type, dtype, nrows) ==
    [type |-> type, dtype |-> dtype,
     data |-> [r \in 1..nrows |-> [j \in 1..WidthOf(type) |-> r + j - 2]]]

Blocks == {Block(type, dtype, nrows) : type \in CellTypes, dtype \in IndexDtypes, nrows \in 0..MaxRows}

\* three blocks, the first and the last of one type
Alternating ==
    {<<Block(a, "int32", 1), Block(b, "int32", 1), Block(a, "int32", 1)>> :
        a \in {"triangle", "quad"}, b \in {"triangle", "quad"}}

PointArrays ==
    {[dtype |-> "float64", data |-> <<<<0, 1, 2>>, <<3, 4, 5>>>>],
     [dtype |-> "float32", data |-> <<<<1, 0, 2>>>>]}

Meshes == [points : PointArrays, cells : SeqsUpTo(Blocks, MaxCellBlocks) \cup Alternating]

\* the caller builds a Mesh and decides on binary or ASCII
InitPly ==
    /\ IdleFacade
    /\ IdleList
    /\ IdleHeader
    /\ mesh_before \in Meshes
    /\ caller_mesh = mesh_before
    /\ as_binary \in BOOLEAN
    /\ fh = NoFile
    /\ warnings = <<>>
    /\ ply_pc = "write"
    /\ write_result = IdleResult
    /\ read_result = IdleResult

\* write(filename, mesh, binary), on a little-endian or a big-endian platform
PlyWrite ==
    /\ ply_pc = "write"
    /\ \E byteorder \in {"little", "big"} :
          LET written == ply_write(caller_mesh, as_binary, byteorder)
          IN  /\ caller_mesh' = written.mesh
              /\ fh' = [lines |-> written.lines, bytes |-> written.bytes]
              /\ warnings' = written.warnings
              /\ write_result' = IF written.exc = None THEN Return(None)
                                 ELSE Raise(written.exc, "")
              /\ ply_pc' = IF written.exc = None THEN "written" ELSE "done"
    /\ UNCHANGED <<mesh_before, as_binary, read_result, varsHeader, notPly>>

\* read(filename): the file is opened and read_buffer is called on it
PlyRead ==
    /\ ply_pc = "written"
    /\ ply_pc' = "read"
    /\ header_pc' = "magic"
    /\ UNCHANGED <<mesh_before, caller_mesh, as_binary, fh, warnings, write_result, read_result,
                   f_lines, empty_reads, return_to, line, header, header_result, notPly>>

\* lines 161-171: the body of an ASCII file
ReadAscii ==
    /\ ply_pc = "read"
    /\ header_pc = "body"
    /\ ~header.is_binary
    /\ read_result' = _read_ascii(SubSeq(fh.lines, Len(f_lines) + 1, Len(fh.lines)), header)
    /\ ply_pc' = "done"
    /\ UNCHANGED <<mesh_before, caller_mesh, as_binary, fh, warnings, write_result,
                   varsHeader, notPly>>

\* lines 149-159, 171: the body of a binary file, on a numpy of either kind
ReadBinary ==
    /\ ply_pc = "read"
    /\ header_pc = "body"
    /\ header.is_binary
    /\ \E scalar_of_one \in BOOLEAN :
          read_result' = _read_binary(fh.bytes, header, scalar_of_one)
    /\ ply_pc' = "done"
    /\ UNCHANGED <<mesh_before, caller_mesh, as_binary, fh, warnings, write_result,
                   varsHeader, notPly>>

NextPly ==
    \/ PlyWrite
    \/ PlyRead
    \/ ReadMagic
    \/ NextLine
    \/ ParseFormat
    \/ HeaderLoop
    \/ VertexProperties
    \/ FaceProperties
    \/ ReadAscii
    \/ ReadBinary

SpecPly == InitPly /\ [][NextPly]_vars

\* ---- the round trip ----

TagsOf(cells) == [k \in 1..Len(cells) |-> cells[k].type]
RowsOfCells(cells) == [k \in 1..Len(cells) |-> cells[k].data]

\* the tags the writer knows, each block as wide as its tag says
KnownTags(cells) == \A k \in 1..Len(cells) : cell_type_to_count(cells[k].type) # NoCount

\* the write returned and the read of its file has ended
RoundTripEnded == write_result.ok /\ (ply_pc = "done" \/ header_pc = "raised")

\* the read returned a Mesh with the points, the tags in order and the rows of
\* the Mesh that was passed to write
ReadBackSame ==
    /\ ply_pc = "done"
    /\ read_result.ok
    /\ read_result.value.points = mesh_before.points
    /\ TagsOf(read_result.value.cells) = TagsOf(mesh_before.cells)
    /\ RowsOfCells(read_result.value.cells) = RowsOfCells(mesh_before.cells)

\* C1: a Mesh of one or more blocks of known tags that is written, binary or
\* ASCII, and read back comes back with the same points, the same tags in the
\* same order and the same rows in each block
C1_RoundTrip ==
    (Len(mesh_before.cells) >= 1 /\ KnownTags(mesh_before.cells) /\ RoundTripEnded)
        => ReadBackSame

\* what holds instead: the round trip is exact for blocks that are not empty
\* and differ in type, in ASCII, and in binary when moreover no block is a
\* vertex block and the indices are not int16
C1_RoundTripOfDistinctBlocks ==
    LET cells == mesh_before.cells
    IN  ( /\ Len(cells) >= 1 /\ KnownTags(cells) /\ RoundTripEnded
          /\ \A k \in 1..Len(cells) : cells[k].data # <<>>
          /\ \A k, m \in 1..Len(cells) : k # m => cells[k].type # cells[m].type
          /\ as_binary => \A k \in 1..Len(cells) :
                             cells[k].type # "vertex" /\ cells[k].dtype # "int16" )
        => ReadBackSame

\* a binary round trip of a triangle block and a quad block has ended
C1_TwoBlocksReadBack ==
    /\ RoundTripEnded /\ as_binary
    /\ TagsOf(mesh_before.cells) = <<"triangle", "quad">>
    /\ Len(mesh_before.cells[1].data) = 2

\* the binary read of an int16 block has failed
C1_ShortNotRead ==
    /\ RoundTripEnded /\ as_binary
    /\ Len(mesh_before.cells) = 1 /\ mesh_before.cells[1].dtype = "int16"
    /\ ~read_result.ok /\ read_result.exc = "KeyError"

\* ---- narrowing and the dtype check ----

\* write has returned or raised
WriteEnded == ply_pc \in {"written", "read", "done"}

HasInt64(cells) == \E k \in 1..Len(cells) : cells[k].dtype = "int64"

\* the rows the header announces: those of the blocks of a known type
AnnouncedRows(cells) ==
    SumOf([k \in 1..Len(cells) |->
             IF cell_type_to_count(cells[k].type) \in {NoCount, 0} THEN 0 ELSE Len(cells[k].data)])

\* every int64 block of `before` is int32 in `after`, and nothing else differs
NarrowedFrom(before, after) ==
    /\ Len(after) = Len(before)
    /\ \A k \in 1..Len(before) :
          /\ after[k].type = before[k].type
          /\ after[k].data = before[k].data
          /\ after[k].dtype = IF before[k].dtype = "int64" THEN "int32" ELSE before[k].dtype

NarrowingWarnings == Len(SelectSeq(warnings, LAMBDA w : w = cast_warning))

DeclaresInt32 ==
    \E i \in 1..Len(fh.lines) :
        fh.lines[i] = <<"property", "list", "uint8", "int32", "vertex_indices">>

ReadsInt32 ==
    (ply_pc = "done" /\ read_result.ok) =>
        \A k \in 1..Len(read_result.value.cells) : read_result.value.cells[k].dtype = "int32"

\* C7 as it is stated: whenever the Mesh holds an int64 block, write narrows
\* every int64 block in place, warns once, and declares int32 indices so that
\* the blocks read back are int32; a Mesh without an int64 block is left as it
\* is, without a warning
C7_Narrowing_Original ==
    WriteEnded =>
        IF HasInt64(mesh_before.cells)
        THEN /\ NarrowedFrom(mesh_before.cells, caller_mesh.cells)
             /\ NarrowingWarnings = 1
             /\ DeclaresInt32
             /\ ReadsInt32
        ELSE caller_mesh = mesh_before /\ NarrowingWarnings = 0

\* C7: when the header announces at least one face row, a Mesh that holds an
\* int64 block has every int64 block narrowed to int32 in place with exactly
\* one warning, and, when the write returns, the header declares int32 indices
\* and the blocks read back are int32; a Mesh without an int64 block, or one
\* whose header announces no face row, is left as it is, without a warning
C7_Narrowing ==
    WriteEnded =>
        IF HasInt64(mesh_before.cells) /\ AnnouncedRows(mesh_before.cells) > 0
        THEN /\ NarrowedFrom(mesh_before.cells, caller_mesh.cells)
             /\ caller_mesh.points = mesh_before.points
             /\ NarrowingWarnings = 1
             /\ write_result.ok => DeclaresInt32 /\ ReadsInt32
        ELSE caller_mesh = mesh_before /\ NarrowingWarnings = 0

\* two int64 blocks were written with one warning and read back
C7_Witness ==
    /\ ply_pc = "done" /\ read_result.ok
    /\ Len(mesh_before.cells) = 2
    /\ \A k \in 1..2 : mesh_before.cells[k].dtype = "int64" /\ caller_mesh.cells[k].dtype = "int32"
    /\ NarrowingWarnings = 1
    /\ Len(read_result.value.cells) = 2

\* the dtype of a block once int64 has been cast down
NarrowDtype(dtype) == IF dtype = "int64" THEN "int32" ELSE dtype

\* C8 as it is stated: whenever two blocks of the Mesh differ in index dtype,
\* write fails with WriteError
C8_MixedDtypesFatal_Original ==
    (WriteEnded /\ \E k, m \in 1..Len(mesh_before.cells) :
                      mesh_before.cells[k].dtype # mesh_before.cells[m].dtype)
        => ~write_result.ok /\ write_result.exc = "WriteError"

\* C8: write fails, with WriteError, exactly when the header announces at least
\* one face row and two blocks differ in index dtype after int64 is taken for
\* int32; it returns otherwise
C8_MixedDtypesFatal ==
    WriteEnded =>
        IF /\ AnnouncedRows(mesh_before.cells) > 0
           /\ \E k, m \in 1..Len(mesh_before.cells) :
                 NarrowDtype(mesh_before.cells[k].dtype) # NarrowDtype(mesh_before.cells[m].dtype)
        THEN ~write_result.ok /\ write_result.exc = "WriteError" /\ ply_pc = "done"
        ELSE write_result.ok

\* an int16 block next to an int32 block has made write fail
C8_Witness ==
    /\ ply_pc = "done" /\ ~write_result.ok /\ write_result.exc = "WriteError"
    /\ Len(mesh_before.cells) = 2
    /\ mesh_before.cells[1].dtype = "int16" /\ mesh_before.cells[2].dtype = "int32"
    /\ mesh_before.cells[1].type = "tetra" /\ mesh_before.cells[2].data # <<>>

\* ---- the face rows of the body ----

\* the N of the header's "element face N" line, 0 if there is no such line
DeclaredFaces ==
    IF \E i \in 1..Len(fh.lines) :
          Len(fh.lines[i]) = 3 /\ SubSeq(fh.lines[i], 1, 2) = <<"element", "face">>
    THEN Int_((CHOOSE l \in {fh.lines[i] : i \in 1..Len(fh.lines)} :
                  Len(l) = 3 /\ SubSeq(l, 1, 2) = <<"element", "face">>)[3])
    ELSE 0

\* the face lines of an ASCII file: what follows end_header and the vertex lines
AsciiFaceLines ==
    LET after == index_of(fh.lines, <<"end_header">>) + Len(mesh_before.points.data)
    IN  SelectSeq(SubSeq(fh.lines, after + 1, Len(fh.lines)), LAMBDA l : l # <<>>)

\* the records [count][count items] in a run of bytes
RECURSIVE RecordsIn(_, _)
RecordsIn(bytes, data_itemsize) ==
    IF bytes = <<>> THEN 0
    ELSE 1 + RecordsIn(Slice(bytes, 1 + Head(bytes) * data_itemsize, Len(bytes)), data_itemsize)

\* the face records of a binary file: what follows the vertex records
BinaryFaceRecords ==
    LET points == mesh_before.points
        after == Len(points.data) * Len(points.data[1]) * itemsize[points.dtype]
    IN  RecordsIn(Slice(fh.bytes, after, Len(fh.bytes)),
                  IF caller_mesh.cells = <<>> THEN 1 ELSE itemsize[caller_mesh.cells[1].dtype])

FaceRowsEmitted == IF as_binary THEN BinaryFaceRecords ELSE Len(AsciiFaceLines)

HasUnknownRows(cells) ==
    \E k \in 1..Len(cells) : cell_type_to_count(cells[k].type) = NoCount /\ cells[k].data # <<>>

\* C11: in every write that returns, binary or ASCII, the rows of a block of a
\* tag the writer does not know are left out of the body, so the body holds as
\* many face rows as the header's "element face N" line declares, and none when
\* the header declares no face element
C11_FaceRowsAsDeclared ==
    (WriteEnded /\ write_result.ok) =>
        /\ FaceRowsEmitted = DeclaredFaces
        /\ FaceRowsEmitted = AnnouncedRows(mesh_before.cells)

\* what holds instead: a binary body holds the face rows the header declares,
\* an ASCII body holds the rows of every block
C11_FaceRowsBinaryOnly ==
    (WriteEnded /\ write_result.ok) =>
        /\ DeclaredFaces = AnnouncedRows(mesh_before.cells)
        /\ FaceRowsEmitted = IF as_binary THEN DeclaredFaces
                             ELSE SumOf([k \in 1..Len(mesh_before.cells) |->
                                           Len(mesh_before.cells[k].data)])

\* an ASCII file of a triangle row and a tetra row declares one face and holds two
C11_UnknownRowsInAscii ==
    /\ WriteEnded /\ write_result.ok /\ ~as_binary
    /\ TagsOf(mesh_before.cells) = <<"triangle", "tetra">>
    /\ DeclaredFaces = 1
    /\ FaceRowsEmitted = 2

\* a binary file of a triangle row and a tetra row declares one face and holds one
C11_UnknownRowsSkippedInBinary ==
    /\ WriteEnded /\ write_result.ok /\ as_binary
    /\ TagsOf(mesh_before.cells) = <<"triangle", "tetra">>
    /\ HasUnknownRows(mesh_before.cells)
    /\ DeclaredFaces = 1
    /\ FaceRowsEmitted = 1

\* ---- read of an ASCII file with scalar face properties ----

\* the most face rows of a file
MaxFaces == 3

\* the lengths a face row may have
FaceLengths == {3, 4, 5}

\* the face properties of a file, in the order they are declared
PropertyOrders ==
    {<<"vertex_indices", "quality">>,
     <<"quality", "vertex_indices">>,
     <<"flag", "vertex_indices", "quality">>}

\* the value of a scalar property on face row r
ScalarValue(name, r) == IF name = "quality" THEN r ELSE MaxFaces + 2 + r

PropertyLine(name) ==
    IF name = "vertex_indices" THEN <<"property", "list", "uchar", "int", "vertex_indices">>
    ELSE <<"property", "int", name>>

\* face row r, of a list of n indices, its values in the order declared
FaceRow(order, r, n) ==
    ConcatAll([p \in 1..Len(order) |->
        IF order[p] = "vertex_indices" THEN <<Str(n)>> \o [j \in 1..n |-> Str(j - 1)]
        ELSE <<Str(ScalarValue(order[p], r))>>])

\* an ASCII file of one vertex and of one face row per length
AsciiFile(order, lengths) ==
    <<<<"ply">>, <<"format", "ascii", "1.0">>, <<"comment", "Created", "by", "hand">>,
      <<"element", "vertex", "1">>,
      <<"property", "float", "x">>, <<"property", "float", "y">>, <<"property", "float", "z">>,
      <<"element", "face", Str(Len(lengths))>>>>
    \o [p \in 1..Len(order) |-> PropertyLine(order[p])]
    \o <<<<"end_header">>, <<"1.0", "0.0", "2.0">>>>
    \o [r \in 1..Len(lengths) |-> FaceRow(order, r, lengths[r])]

AsciiFiles ==
    {AsciiFile(order, lengths) : order \in PropertyOrders, lengths \in SeqsUpTo(FaceLengths, MaxFaces)}

\* read(filename) is called on an ASCII file
InitAsciiRead ==
    /\ IdleFacade
    /\ IdleList
    /\ mesh_before = <<>>
    /\ caller_mesh = <<>>
    /\ as_binary = FALSE
    /\ \E lines \in AsciiFiles : fh = [lines |-> lines, bytes |-> <<>>]
    /\ warnings = <<>>
    /\ ply_pc = "read"
    /\ write_result = IdleResult
    /\ read_result = IdleResult
    /\ f_lines = <<>>
    /\ empty_reads = 0
    /\ header_pc = "magic"
    /\ return_to = None
    /\ line = <<>>
    /\ header = EmptyHeader
    /\ header_result = IdleResult

NextAsciiRead ==
    \/ ReadMagic
    \/ NextLine
    \/ ParseFormat
    \/ HeaderLoop
    \/ VertexProperties
    \/ FaceProperties
    \/ ReadAscii

SpecAsciiRead == InitAsciiRead /\ [][NextAsciiRead]_vars

\* the face rows of the file: the lines after the header and the vertex lines
FaceRowsOfFile ==
    SubSeq(fh.lines, index_of(fh.lines, <<"end_header">>) + header.num_verts + 1, Len(fh.lines))

\* the leading count of the list property on a face row
ListLength(data) == Int_(data[index_of(header.cell_data_names, "vertex_indices")])

\* the value of a scalar property on a face row
ScalarOn(data, name) ==
    LET p == index_of(header.cell_data_names, name)
    IN  IF p < index_of(header.cell_data_names, "vertex_indices")
        THEN Int_(data[p]) ELSE Int_(data[p + ListLength(data)])

\* the values of a scalar property on the rows whose list has n indices, in
\* file order
ValuesOfLength(name, n) ==
    LET rows == SelectSeq(FaceRowsOfFile, LAMBDA data : ListLength(data) = n)
    IN  [r \in 1..Len(rows) |-> ScalarOn(rows[r], name)]

\* cell_data[name][n] when the face loop has ended (line 243), before line 249
\* drops the keys; a key never used holds nothing, and a file without face rows
\* leaves cell_data empty
Bucket(name, n) ==
    LET cell_data == read_result.value.cell_data
        items == IF name \in DOMAIN cell_data THEN cell_data[name] ELSE <<>>
    IN  IF \E i \in 1..Len(items) : items[i][1] = n
        THEN items[CHOOSE i \in 1..Len(items) : items[i][1] = n][2]
        ELSE <<>>

ScalarNames == {header.cell_data_names[p] : p \in 1..Len(header.cell_data_names)} \ {"vertex_indices"}

AsciiReadEnded == ply_pc = "done" /\ read_result.ok

DeclaredAfterList(name) ==
    index_of(header.cell_data_names, name) > index_of(header.cell_data_names, "vertex_indices")

\* C12: when the face rows of an ASCII file have been read, for each scalar
\* face property and each length n the bucket for n holds exactly the values
\* of the rows whose list has n indices, in file order, whether the scalar is
\* declared before or after the list property
C12_ScalarsInOwnBucket ==
    AsciiReadEnded =>
        \A name \in ScalarNames : \A n \in 0..MaxNum :
            Bucket(name, n) = ValuesOfLength(name, n)

\* what holds instead: the scalars declared after the list property are in the
\* bucket of their own row
C12_ScalarsAfterListInOwnBucket ==
    AsciiReadEnded =>
        \A name \in ScalarNames : DeclaredAfterList(name) =>
            \A n \in 0..MaxNum : Bucket(name, n) = ValuesOfLength(name, n)

\* a scalar declared before the list, on a triangle row and then a quad row:
\* both values are in the bucket of length 3
C12_StaleLength ==
    /\ AsciiReadEnded
    /\ header.cell_data_names = <<"quality", "vertex_indices">>
    /\ FaceRowsOfFile = <<<<"1", "3", "0", "1", "2">>, <<"2", "4", "0", "1", "2", "3">>>>
    /\ Bucket("quality", 3) = <<1, 2>>
    /\ Bucket("quality", 4) = <<>>

\* a scalar declared after the list, on a triangle row and then a quad row
C12_OwnLength ==
    /\ AsciiReadEnded
    /\ header.cell_data_names = <<"vertex_indices", "quality">>
    /\ Len(FaceRowsOfFile) = 2
    /\ Bucket("quality", 3) = <<1>>
    /\ Bucket("quality", 4) = <<2>>

\* a scalar declared before the list and followed by another scalar: its value
\* on the first row is in the bucket of length 1
C12_FirstRowInBucketOne ==
    /\ AsciiReadEnded
    /\ header.cell_data_names = <<"flag", "vertex_indices", "quality">>
    /\ Len(FaceRowsOfFile) = 1
    /\ ListLength(FaceRowsOfFile[1]) = 3
    /\ Bucket("flag", 1) = <<ScalarValue("flag", 1)>>
    /\ Bucket("flag", 3) = <<>>

====
